---- MODULE Spec2Model ----
(***************************************************************************)
(* State-machine model of the gym-check mini app: the session store        *)
(* (load / normalize / edit / persist), the input sanitizer and the rest   *)
(* timer.  The full application is src/src/App.tsx; the two earlier        *)
(* revisions kept in the repository are src/unnamed/part_001 (tabbed,      *)
(* three plans, storage key -v4) and src/unnamed/part_000 (single list,    *)
(* storage key -v3).  Definitions that model an earlier revision carry     *)
(* the suffix V4 or V3.                                                    *)
(*                                                                         *)
(* Strings are sequences of one-character strings.  A JSON value is a      *)
(* tagged record [t, v]; a JSON number is identified with the text that    *)
(* String(n) gives for it.                                                 *)
(***************************************************************************)
EXTENDS Integers, Sequences, FiniteSets, TLC

(***************************************************************************)
(* Bounds of the model                                                     *)
(***************************************************************************)
\* longest raw string handed to the sanitizer in SpecSanitize
MaxStrLen == 4
\* largest digit cap tried in SpecSanitize
MaxCap == 4
\* longest plan array in the persisted texts of SpecLoad
MaxBlobItems == 2
\* most handler calls in one behaviour of Spec
MaxSteps == 4

\* the number of handler calls in a run of the custom-program handlers
MaxProgramSteps == 5
\* most handler calls and ticks in one behaviour of SpecV4 (the two buttons of
\* the rest banner, which only move the remaining seconds, are not counted)
MaxStepsV4 == 4

VARIABLES
  \* sanitizer harness: the value and cap handed to sanitizeNumber, its result
  sanValue, sanCap, sanResult,
  \* load harness: the persisted text and what each revision's loader returns
  \* (loaders names the loaders that have run)
  blob, loaders, loadedApp, loadedV4, loadedV3,
  \* what loadProfileState returns for the persisted text
  loadedProfile,
  \* rest timer of the full application: the two duration inputs, the remaining
  \* seconds (<<>> is null, <<k>> is k), the panel flag, whether the effect's
  \* one-second timeout is pending, and the notice on screen
  restMinutesInput, restSecondsInput, restSeconds, isRestPanelOpen,
  tickScheduled, notice,
  \* history of the current countdown: the total it was started with, the ticks
  \* it has had, the expiry notifications (notice plus haptic) it has fired,
  \* what cancelled it, and whether the last operation was startRestTimer
  countTotal, ticks, expiries, cancelledBy, lastOp,
  \* timeouts of the countdown effect: how many are armed (set and neither
  \* fired nor cleared), whether the armed one was set before the latest
  \* successful startRestTimer, whether the tick that fired last was such a
  \* one, and whether the latest start found a countdown running
  pendingTicks, tickStale, lastTickStale, replacedRunning,
  \* store of the full application: the state hooks of the component, the id
  \* createId draws next, the number of handler calls made, and the three texts the
  \* persist effects keep in localStorage
  screen, selectedPlanId, sessionByPlan, customPrograms,
  selectedCustomProgramId, pendingDeleteCustomProgramId, profile,
  nextId, steps, storage,
  \* the workout log of the full application and the text kept under its key
  workoutLogs, storedLogs,
  \* history of the pending-delete mark: whether clearCurrentPlan set it and no
  \* exercise was added and no other program or plan selected since
  markClean,
  \* the number of handler calls the run may make
  stepBudget,
  \* store and rest timer of the tabbed revision (part_001), and the handler
  \* that ran last
  selectedPlanIdV4, sessionByPlanV4, restSecondsV4, tickScheduledV4,
  noticeV4, nextIdV4, stepsV4, storageV4, lastOpV4,
  \* the calendar harness: the anchor date and the clock reading, the month
  \* grid built from them, and the week starts of the two revisions (<<>>
  \* until computed)
  anchorDate, now, monthCalendar, weekStart, weekStartV3

sanVars == <<sanValue, sanCap, sanResult>>

loadVars == <<blob, loaders, loadedApp, loadedV4, loadedV3, loadedProfile>>

timerVars ==
  <<restMinutesInput, restSecondsInput, restSeconds, isRestPanelOpen,
    tickScheduled, notice, countTotal, ticks, expiries, cancelledBy, lastOp,
    pendingTicks, tickStale, lastTickStale, replacedRunning>>

storeVars ==
  <<screen, selectedPlanId, sessionByPlan, customPrograms,
    selectedCustomProgramId, pendingDeleteCustomProgramId, profile,
    nextId, steps, storage, workoutLogs, storedLogs, markClean, stepBudget>>

v4Vars ==
  <<selectedPlanIdV4, sessionByPlanV4, restSecondsV4, tickScheduledV4,
    noticeV4, nextIdV4, stepsV4, storageV4, lastOpV4>>

calVars == <<anchorDate, now, monthCalendar, weekStart, weekStartV3>>

vars == <<sanVars, loadVars, timerVars, storeVars, v4Vars, calVars>>

(***************************************************************************)
(* Strings                                                                 *)
(***************************************************************************)
Digits == {"0", "1", "2", "3", "4", "5", "6", "7", "8", "9"}

Min(a, b) == IF a < b THEN a ELSE b

Max(a, b) == IF a > b THEN a ELSE b

\* String.prototype.slice(0, n) for an integer n >= 0
Slice(s, n) == SubSeq(s, 1, Min(n, Len(s)))

\* s.replace(/[^\d]/g, ""): every character that is not an ASCII digit removed
RECURSIVE StripNonDigits(_)
StripNonDigits(s) ==
  IF s = <<>> THEN <<>>
  ELSE IF Head(s) \in Digits THEN <<Head(s)>> \o StripNonDigits(Tail(s))
  ELSE StripNonDigits(Tail(s))

\* String.prototype.trim(): leading and trailing white space removed
RECURSIVE TrimStart(_)
TrimStart(s) ==
  IF s = <<>> THEN <<>>
  ELSE IF Head(s) = " " THEN TrimStart(Tail(s))
  ELSE s

RECURSIVE TrimEnd(_)
TrimEnd(s) ==
  IF s = <<>> THEN <<>>
  ELSE IF s[Len(s)] = " " THEN TrimEnd(SubSeq(s, 1, Len(s) - 1))
  ELSE s

Trim(s) == TrimEnd(TrimStart(s))

\* a string of n copies of the character c
Rep(c, n) == [i \in 1..n |-> c]

\* Array.prototype.filter
Filter(seq, Keep(_)) == SelectSeq(seq, Keep)

(***************************************************************************)
(* JSON values, as JSON.parse returns them                                 *)
(***************************************************************************)
Undef == [t |-> "undefined", v |-> <<>>]

JNull == [t |-> "null", v |-> <<>>]

JBool(b) == [t |-> "boolean", v |-> b]

\* a number, given by the text String(n) prints for it
JNum(text) == [t |-> "number", v |-> text]

JStr(s) == [t |-> "string", v |-> s]

JArr(elems) == [t |-> "array", v |-> elems]

\* a plain object, given by the function from its own keys to their values
JObj(fields) == [t |-> "object", v |-> fields]

NoFields == [k \in {} |-> Undef]

\* obj.key on a plain object: undefined when the key is absent
Get(obj, key) == IF key \in DOMAIN obj.v THEN obj.v[key] ELSE Undef

\* value ?? fallback
Coalesce(value, fallback) ==
  IF value.t \in {"undefined", "null"} THEN fallback ELSE value

\* Boolean(value)
Truthy(value) ==
  CASE value.t \in {"undefined", "null"} -> FALSE
    [] value.t = "boolean" -> value.v
    [] value.t = "number" -> value.v # <<"0">>
    [] value.t = "string" -> value.v # <<>>
    [] OTHER -> TRUE

ObjectObjectText ==
  <<"[", "o", "b", "j", "e", "c", "t", " ", "O", "b", "j", "e", "c", "t", "]">>

\* String(value) throws a TypeError when the conversion meets a plain object
\* whose own toString is not callable (JSON holds no functions)
RECURSIVE StringThrows(_)
StringThrows(value) ==
  CASE value.t = "object" -> "toString" \in DOMAIN value.v
    [] value.t = "array" -> \E i \in 1..Len(value.v) : StringThrows(value.v[i])
    [] OTHER -> FALSE

\* String(value), when it does not throw
RECURSIVE JSString(_)
RECURSIVE JoinComma(_)
JSString(value) ==
  CASE value.t = "undefined" -> <<"u", "n", "d", "e", "f", "i", "n", "e", "d">>
    [] value.t = "null" -> <<"n", "u", "l", "l">>
    [] value.t = "boolean" ->
         IF value.v THEN <<"t", "r", "u", "e">> ELSE <<"f", "a", "l", "s", "e">>
    [] value.t = "number" -> value.v
    [] value.t = "string" -> value.v
    [] value.t = "array" -> JoinComma(value.v)
    [] OTHER -> ObjectObjectText

\* Array.prototype.join(","): null and undefined elements print as ""
JoinComma(elems) ==
  IF elems = <<>> THEN <<>>
  ELSE LET first == IF Head(elems).t \in {"undefined", "null"}
                    THEN <<>> ELSE JSString(Head(elems))
       IN IF Len(elems) = 1 THEN first
          ELSE first \o <<",">> \o JoinComma(Tail(elems))

(***************************************************************************)
(* Input sanitizer                                                         *)
(***************************************************************************)
\* sanitizeNumber with the two steps in the wrong order
sanitizeNumberSliceFirst(value, maxDigits) ==
  StripNonDigits(Slice(JSString(Coalesce(value, JStr(<<>>))), maxDigits))

\* sanitizeNumber that keeps every digit
sanitizeNumberNoCap(value, maxDigits) ==
  StripNonDigits(JSString(Coalesce(value, JStr(<<>>))))

sanitizeNumber(value, maxDigits) ==
  Slice(StripNonDigits(JSString(Coalesce(value, JStr(<<>>)))), maxDigits)

\* sanitizeNumber(value, n) throws exactly when String(value ?? "") does
sanitizeNumberThrows(value) == StringThrows(Coalesce(value, JStr(<<>>)))

\* parseObject: the value itself when it is a plain object, null otherwise
parseObject(value) == IF value.t = "object" THEN value ELSE JNull

(***************************************************************************)
(* Exercise catalog (src/src/exerciseCatalog.ts).  The catalog holds about *)
(* sixty Cyrillic display names and a table of legacy aliases; the model   *)
(* keeps two canonical names and one alias, written with short ASCII       *)
(* stand-ins: "BP" for the bench press entry, "SQ" for the squat entry     *)
(* and the alias "B" that the legacy table maps to "BP".                   *)
(***************************************************************************)
NameBP == <<"B", "P">>

NameSQ == <<"S", "Q">>

AliasB == <<"B">>

\* exerciseByName: the canonical names
exerciseByName == {NameBP, NameSQ}

\* legacyAliasByName[name], for the names the table holds
legacyAliasByName(name) == IF name = AliasB THEN NameBP ELSE name

legacyAliasNames == {AliasB}

\* getExerciseDefinition(name)?.name ?? name
CanonicalName(name) ==
  IF name \in exerciseByName THEN name
  ELSE IF name \in legacyAliasNames /\ legacyAliasByName(name) \in exerciseByName
       THEN legacyAliasByName(name)
  ELSE name

(***************************************************************************)
(* Full application (src/src/App.tsx): data model                          *)
(***************************************************************************)
DayPlanIds == {"upper", "lower", "fullbody", "cardio", "custom"}

\* the order in which loadSessionByPlan builds the five lists
DayPlanOrder == <<"upper", "lower", "fullbody", "cardio", "custom">>

\* digit caps and length caps written in the code
WeightDigits == 3

RepsDigits == 3

SpeedDigits == 3

DropWeightDigits == 3

DropRepsDigits == 2

ProfileDigits == 3

NameChars == 90

NoteChars == 140

\* ids are opaque and unique (crypto.randomUUID); the model draws them from a
\* counter.  Constructors take the id they are given.
createDropSet(id, weight, reps) ==
  [id |-> id,
   weight |-> sanitizeNumber(JStr(weight), DropWeightDigits),
   reps |-> sanitizeNumber(JStr(reps), DropRepsDigits)]

createSet(id, weight, reps, dropSets, speed) ==
  [id |-> id,
   weight |-> sanitizeNumber(JStr(weight), WeightDigits),
   reps |-> sanitizeNumber(JStr(reps), RepsDigits),
   speed |-> sanitizeNumber(JStr(speed), SpeedDigits),
   dropSets |-> IF Len(dropSets) > 0 THEN dropSets ELSE <<>>]

\* createExercise(name) as every caller uses it: no sets given, so one empty
\* set; ids id (exercise) and id + 1 (its set)
createExercise(id, name) ==
  [id |-> id,
   name |-> name,
   note |-> <<>>,
   expanded |-> FALSE,
   sets |-> <<createSet(id + 1, <<>>, <<>>, <<>>, <<>>)>>]

buildDefaultSessionByPlan ==
  [p \in DayPlanIds |-> <<>>]

(***************************************************************************)
(* Fresh ids for a list of exercises built by normalization                *)
(***************************************************************************)
SetSize(setItem) ==
  IF "dropSets" \in DOMAIN setItem THEN 1 + Len(setItem.dropSets) ELSE 1

RECURSIVE SetsSize(_)
SetsSize(sets) ==
  IF sets = <<>> THEN 0 ELSE SetSize(Head(sets)) + SetsSize(Tail(sets))

ExerciseSize(exercise) == 1 + SetsSize(exercise.sets)

RECURSIVE CountIds(_)
CountIds(exercises) ==
  IF exercises = <<>> THEN 0
  ELSE ExerciseSize(Head(exercises)) + CountIds(Tail(exercises))

WithSetIds(setItem, base) ==
  IF "dropSets" \in DOMAIN setItem
  THEN [setItem EXCEPT
          !.id = base,
          !.dropSets = [k \in 1..Len(setItem.dropSets) |->
                          [setItem.dropSets[k] EXCEPT !.id = base + k]]]
  ELSE [setItem EXCEPT !.id = base]

WithExerciseIds(exercise, base) ==
  [exercise EXCEPT
     !.id = base,
     !.sets = [j \in 1..Len(exercise.sets) |->
                 WithSetIds(exercise.sets[j],
                            base + 1 + SetsSize(SubSeq(exercise.sets, 1, j - 1)))]]

\* createId for every exercise, set and drop set of the list, from base on
WithIds(exercises, base) ==
  [i \in 1..Len(exercises) |->
     WithExerciseIds(exercises[i], base + CountIds(SubSeq(exercises, 1, i - 1)))]

(***************************************************************************)
(* Full application: normalization of persisted exercises                  *)
(***************************************************************************)
Dropped == [dropped |-> TRUE]

IsKept(x) == x # Dropped

\* String(x ?? "") of a field that is used as a string when it is one
FieldText(value) == JSString(Coalesce(value, JStr(<<>>)))

normalizeDropSet(rawDrop) ==
  LET dropObj == parseObject(rawDrop)
  IN IF dropObj = JNull THEN Dropped
     ELSE createDropSet(0, FieldText(Get(dropObj, "weight")),
                        FieldText(Get(dropObj, "reps")))

normalizeSet(rawSet) ==
  LET setObj == parseObject(rawSet)
  IN IF setObj = JNull THEN Dropped
     ELSE LET rawDropSets == IF Get(setObj, "dropSets").t = "array"
                             THEN Get(setObj, "dropSets").v ELSE <<>>
              dropSets == Filter([k \in 1..Len(rawDropSets) |->
                                    normalizeDropSet(rawDropSets[k])], IsKept)
          IN createSet(0, FieldText(Get(setObj, "weight")),
                       FieldText(Get(setObj, "reps")), dropSets,
                       FieldText(Get(setObj, "speed")))

\* the name normalizeExercises reads from an element: "" when unusable
RawName(item) ==
  IF Get(item, "name").t = "string"
  THEN Slice(Trim(Get(item, "name").v), NameChars)
  ELSE <<>>

\* normalizeExercise that keeps the set list as it was read, even when empty
normalizeExerciseNoDefaultSet(rawItem) ==
  LET item == parseObject(rawItem)
  IN IF item = JNull THEN Dropped
     ELSE IF RawName(item) = <<>> THEN Dropped
     ELSE LET rawSets == IF Get(item, "sets").t = "array"
                         THEN Get(item, "sets").v ELSE <<>>
          IN [id |-> 0,
              name |-> CanonicalName(RawName(item)),
              note |-> IF Get(item, "note").t = "string"
                       THEN Slice(Get(item, "note").v, NoteChars) ELSE <<>>,
              expanded |-> Truthy(Get(item, "expanded")),
              sets |-> Filter([j \in 1..Len(rawSets) |-> normalizeSet(rawSets[j])],
                              IsKept)]

\* the body of the map callback of normalizeExercises
normalizeExercise(rawItem) ==
  LET item == parseObject(rawItem)
  IN IF item = JNull THEN Dropped
     ELSE IF RawName(item) = <<>> THEN Dropped
     ELSE LET rawSets == IF Get(item, "sets").t = "array"
                         THEN Get(item, "sets").v ELSE <<>>
              sets == Filter([j \in 1..Len(rawSets) |-> normalizeSet(rawSets[j])],
                             IsKept)
          IN [id |-> 0,
              name |-> CanonicalName(RawName(item)),
              note |-> IF Get(item, "note").t = "string"
                       THEN Slice(Get(item, "note").v, NoteChars) ELSE <<>>,
              expanded |-> Truthy(Get(item, "expanded")),
              sets |-> IF Len(sets) > 0 THEN sets
                       ELSE <<createSet(0, <<>>, <<>>, <<>>, <<>>)>>]

\* normalizeExercises(input), ids still to be drawn
normalizeExercises(input) ==
  IF input.t # "array" THEN <<>>
  ELSE Filter([i \in 1..Len(input.v) |-> normalizeExercise(input.v[i])], IsKept)

\* whether normalizeExercises(input) throws: some String(x) it evaluates does
normalizeSetThrows(rawSet) ==
  LET setObj == parseObject(rawSet)
  IN /\ setObj # JNull
     /\ \/ \E f \in {"weight", "reps", "speed"} :
             /\ Get(setObj, f).t # "string"
             /\ sanitizeNumberThrows(Get(setObj, f))
        \/ /\ Get(setObj, "dropSets").t = "array"
           /\ \E k \in 1..Len(Get(setObj, "dropSets").v) :
                LET dropObj == parseObject(Get(setObj, "dropSets").v[k])
                IN /\ dropObj # JNull
                   /\ \E f \in {"weight", "reps"} :
                        /\ Get(dropObj, f).t # "string"
                        /\ sanitizeNumberThrows(Get(dropObj, f))

normalizeExercisesThrows(input) ==
  /\ input.t = "array"
  /\ \E i \in 1..Len(input.v) :
       LET item == parseObject(input.v[i])
       IN /\ item # JNull
          /\ RawName(item) # <<>>
          /\ Get(item, "sets").t = "array"
          /\ \E j \in 1..Len(Get(item, "sets").v) :
               normalizeSetThrows(Get(item, "sets").v[j])

(***************************************************************************)
(* Persisted text, as localStorage.getItem returns it                      *)
(***************************************************************************)
\* no item under the key
NoItem == [t |-> "absent", v |-> <<>>]

\* the empty string
EmptyText == [t |-> "empty", v |-> <<>>]

\* text that JSON.parse rejects, such as 'not json'
BadText == [t |-> "invalid", v |-> <<>>]

\* text that JSON.parse accepts, given by the value it returns
JsonText(value) == [t |-> "json", v |-> value]

\* loadSessionByPlan(), reading the text raw; the ids it draws start at base
loadSessionByPlan(raw, base) ==
  IF raw.t \in {"absent", "empty", "invalid"} THEN buildDefaultSessionByPlan
  ELSE LET parsed == parseObject(raw.v)
       IN IF parsed = JNull THEN buildDefaultSessionByPlan
          ELSE IF \E p \in DayPlanIds : normalizeExercisesThrows(Get(parsed, p))
               THEN buildDefaultSessionByPlan
          ELSE LET lists == [p \in DayPlanIds |-> normalizeExercises(Get(parsed, p))]
                   Before(k) == LET Sum[n \in 0..5] ==
                                      IF n = 0 THEN 0
                                      ELSE Sum[n - 1] + CountIds(lists[DayPlanOrder[n]])
                                IN Sum[k - 1]
               IN [p \in DayPlanIds |->
                     WithIds(lists[p],
                             base + Before(CHOOSE k \in 1..5 : DayPlanOrder[k] = p))]

\* the number of ids a session holds
SessionIds(session) ==
  LET Sum[n \in 0..5] ==
        IF n = 0 THEN 0 ELSE Sum[n - 1] + CountIds(session[DayPlanOrder[n]])
  IN Sum[5]

(***************************************************************************)
(* Tabbed revision (src/unnamed/part_001): data model and load             *)
(***************************************************************************)
DayPlanIdsV4 == {"upper", "lower", "cardio"}

DayPlanOrderV4 == <<"upper", "lower", "cardio">>

RepsDigitsV4 == 2

NameCharsV4 == 80

\* value?.key: undefined unless value is a plain object that has the key
OptGet(value, key) == IF value.t = "object" THEN Get(value, key) ELSE Undef

createSetV4(id, weight, reps) ==
  [id |-> id,
   weight |-> sanitizeNumber(JStr(weight), WeightDigits),
   reps |-> sanitizeNumber(JStr(reps), RepsDigitsV4)]

createExerciseV4(id, name, sets) ==
  [id |-> id,
   name |-> name,
   expanded |-> FALSE,
   sets |-> IF Len(sets) > 0 THEN sets ELSE <<createSetV4(0, <<>>, <<>>)>>]

\* stand-ins for the six default exercise names of the revision
NameZL == <<"Z", "L">>

NameTV == <<"T", "V">>

NamePR == <<"P", "R">>

NameYM == <<"Y", "M">>

NameBD == <<"B", "D">>

NameVT == <<"V", "T">>

DefaultListsV4 ==
  [upper |-> <<createExerciseV4(0, NameZL,
                 <<createSetV4(0, <<"3", "5">>, <<"1", "2">>),
                   createSetV4(0, <<"4", "0">>, <<"1", "0">>)>>),
               createExerciseV4(0, NameTV,
                 <<createSetV4(0, <<"4", "0">>, <<"1", "2">>)>>)>>,
   lower |-> <<createExerciseV4(0, NamePR,
                 <<createSetV4(0, <<"4", "5">>, <<"1", "2">>),
                   createSetV4(0, <<"5", "0">>, <<"1", "0">>)>>),
               createExerciseV4(0, NameYM,
                 <<createSetV4(0, <<"6", "0">>, <<"1", "2">>)>>)>>,
   cardio |-> <<createExerciseV4(0, NameBD,
                  <<createSetV4(0, <<"0">>, <<"2", "0">>)>>),
                createExerciseV4(0, NameVT,
                  <<createSetV4(0, <<"0">>, <<"1", "5">>)>>)>>]

\* fresh ids for the three lists, drawn in the order upper, lower, cardio
WithIdsV4(lists, base) ==
  [upper |-> WithIds(lists.upper, base),
   lower |-> WithIds(lists.lower, base + CountIds(lists.upper)),
   cardio |-> WithIds(lists.cardio,
                      base + CountIds(lists.upper) + CountIds(lists.lower))]

buildDefaultSessionByPlanV4(base) == WithIdsV4(DefaultListsV4, base)

\* how many ids WithIdsV4 draws
CountIdsV4(lists) ==
  CountIds(lists.upper) + CountIds(lists.lower) + CountIds(lists.cardio)

\* a set read from persisted data: every element of the array gives one
normalizeSetV4(setItem) ==
  createSetV4(0, FieldText(OptGet(setItem, "weight")),
              FieldText(OptGet(setItem, "reps")))

normalizeSetThrowsV4(setItem) ==
  \E f \in {"weight", "reps"} :
    /\ OptGet(setItem, f).t # "string"
    /\ sanitizeNumberThrows(OptGet(setItem, f))

RawNameV4(item) ==
  IF OptGet(item, "name").t = "string"
  THEN Slice(Trim(OptGet(item, "name").v), NameCharsV4)
  ELSE <<>>

normalizeExerciseV4(item) ==
  IF RawNameV4(item) = <<>> THEN Dropped
  ELSE LET sets == IF OptGet(item, "sets").t = "array"
                   THEN [j \in 1..Len(OptGet(item, "sets").v) |->
                           normalizeSetV4(OptGet(item, "sets").v[j])]
                   ELSE <<createSetV4(0, <<>>, <<>>)>>
       IN [id |-> 0,
           name |-> RawNameV4(item),
           expanded |-> Truthy(OptGet(item, "expanded")),
           sets |-> IF Len(sets) > 0 THEN sets ELSE <<createSetV4(0, <<>>, <<>>)>>]

normalizeExercisesV4(input) ==
  IF input.t # "array" THEN <<>>
  ELSE Filter([i \in 1..Len(input.v) |-> normalizeExerciseV4(input.v[i])], IsKept)

normalizeExercisesThrowsV4(input) ==
  /\ input.t = "array"
  /\ \E i \in 1..Len(input.v) :
       /\ RawNameV4(input.v[i]) # <<>>
       /\ OptGet(input.v[i], "sets").t = "array"
       /\ \E j \in 1..Len(OptGet(input.v[i], "sets").v) :
            normalizeSetThrowsV4(OptGet(input.v[i], "sets").v[j])

\* !parsed || typeof parsed !== "object": null, false, 0, "" and every other
\* scalar are refused; arrays pass
RefusedV4(parsed) == parsed.t \notin {"object", "array"}

\* loadSessionByPlan that answers unusable text with three empty lists
loadSessionByPlanNoDefaultV4(raw, base) ==
  IF raw.t \in {"absent", "empty", "invalid"} THEN [p \in DayPlanIdsV4 |-> <<>>]
  ELSE IF RefusedV4(raw.v) THEN [p \in DayPlanIdsV4 |-> <<>>]
  ELSE IF \E p \in DayPlanIdsV4 : normalizeExercisesThrowsV4(OptGet(raw.v, p))
       THEN buildDefaultSessionByPlanV4(base)
  ELSE LET lists == [p \in DayPlanIdsV4 |-> normalizeExercisesV4(OptGet(raw.v, p))]
       IN WithIdsV4([p \in DayPlanIdsV4 |->
                       IF Len(lists[p]) > 0 THEN lists[p] ELSE DefaultListsV4[p]],
                    base)

loadSessionByPlanV4(raw, base) ==
  IF raw.t \in {"absent", "empty", "invalid"} THEN buildDefaultSessionByPlanV4(base)
  ELSE IF RefusedV4(raw.v) THEN buildDefaultSessionByPlanV4(base)
  ELSE IF \E p \in DayPlanIdsV4 : normalizeExercisesThrowsV4(OptGet(raw.v, p))
       THEN buildDefaultSessionByPlanV4(base)
  ELSE LET lists == [p \in DayPlanIdsV4 |-> normalizeExercisesV4(OptGet(raw.v, p))]
       IN WithIdsV4([p \in DayPlanIdsV4 |->
                       IF Len(lists[p]) > 0 THEN lists[p] ELSE DefaultListsV4[p]],
                    base)

(***************************************************************************)
(* Single-list revision (src/unnamed/part_000): data model and load        *)
(***************************************************************************)
GroupLegs == <<"l", "e", "g", "s">>

GroupBack == <<"b", "a", "c", "k">>

GroupChest == <<"c", "h", "e", "s", "t">>

GroupTriceps == <<"t", "r", "i", "c", "e", "p", "s">>

GroupShoulders == <<"s", "h", "o", "u", "l", "d", "e", "r", "s">>

\* exerciseGroups.map(group => group.id)
exerciseGroupIds == {GroupLegs, GroupShoulders, GroupBack, GroupChest, GroupTriceps}

\* exerciseGroups[0].id
FirstGroupId == GroupLegs

\* stand-ins for the placeholder name and the fourth default name
NamePlaceholder == <<"E", "x">>

NameFZ == <<"F", "Z">>

createExerciseV3(id, name, groupId, expanded, sets) ==
  [id |-> id,
   name |-> name,
   groupId |-> groupId,
   expanded |-> expanded,
   sets |-> IF Len(sets) > 0 THEN sets ELSE <<createSetV4(0, <<>>, <<>>)>>]

buildDefaultSessionV3(base) ==
  WithIds(<<createExerciseV3(0, NamePR, GroupLegs, TRUE,
              <<createSetV4(0, <<"4", "0">>, <<"1", "2">>),
                createSetV4(0, <<"4", "5">>, <<"1", "0">>),
                createSetV4(0, <<"4", "5">>, <<"1", "0">>)>>),
            createExerciseV3(0, NameZL, GroupChest, FALSE,
              <<createSetV4(0, <<"3", "0">>, <<"1", "2">>),
                createSetV4(0, <<"3", "5">>, <<"1", "0">>)>>),
            createExerciseV3(0, NameTV, GroupBack, FALSE,
              <<createSetV4(0, <<"3", "5">>, <<"1", "2">>)>>),
            createExerciseV3(0, NameFZ, GroupTriceps, FALSE,
              <<createSetV4(0, <<"1", "8">>, <<"1", "2">>)>>)>>, base)

\* the group an element names, the first group when it names none that exists
GroupIdOf(item) ==
  IF OptGet(item, "groupId").t = "string" /\ OptGet(item, "groupId").v \in exerciseGroupIds
  THEN OptGet(item, "groupId").v
  ELSE FirstGroupId

\* the body of the map callback of loadSession: every element gives an exercise
normalizeExerciseV3(item) ==
  LET setItems == IF OptGet(item, "sets").t = "array"
                  THEN [j \in 1..Len(OptGet(item, "sets").v) |->
                          normalizeSetV4(OptGet(item, "sets").v[j])]
                  ELSE <<>>
      named == /\ OptGet(item, "name").t = "string"
               /\ Len(Trim(OptGet(item, "name").v)) > 0
  IN createExerciseV3(0,
       IF named THEN Slice(Trim(OptGet(item, "name").v), NameCharsV4)
       ELSE NamePlaceholder,
       GroupIdOf(item),
       Truthy(OptGet(item, "expanded")),
       IF Len(setItems) > 0 THEN setItems ELSE <<createSetV4(0, <<>>, <<>>)>>)

loadSessionThrowsV3(parsed) ==
  \E i \in 1..Len(parsed.v) :
    /\ OptGet(parsed.v[i], "sets").t = "array"
    /\ \E j \in 1..Len(OptGet(parsed.v[i], "sets").v) :
         normalizeSetThrowsV4(OptGet(parsed.v[i], "sets").v[j])

loadSessionV3(raw, base) ==
  IF raw.t \in {"absent", "empty", "invalid"} THEN buildDefaultSessionV3(base)
  ELSE IF raw.v.t # "array" THEN buildDefaultSessionV3(base)
  ELSE IF loadSessionThrowsV3(raw.v) THEN buildDefaultSessionV3(base)
  ELSE LET normalized == [i \in 1..Len(raw.v.v) |-> normalizeExerciseV3(raw.v.v[i])]
       IN IF Len(normalized) > 0 THEN WithIds(normalized, base)
          ELSE buildDefaultSessionV3(base)

(***************************************************************************)
(* Persisted inputs of the model                                           *)
(***************************************************************************)
\* raw values of a numeric field
FieldPlain == JStr(<<"4", "0">>)

FieldDirty == JStr(<<"1", "a", "2", "b", "3", "c", "4">>)

FieldNumber == JNum(<<"1", "2", ".", "5">>)

FieldArray == JArr(<<JNum(<<"7">>), JNull, JNum(<<"8">>)>>)

FieldObject == JObj(NoFields)

FieldThrowing == JObj([toString |-> JNum(<<"1">>)])

RawDropSetA ==
  JObj([weight |-> JStr(<<"9", "9", "9", "9">>), reps |-> FieldDirty])

RawDropSetB == JObj([weight |-> FieldNumber])

\* values of the dropSets field of a persisted set
RawDropSetLists ==
  {Undef, JStr(<<"x">>), JArr(<<>>), JArr(<<JNull, RawDropSetA>>),
   JArr(<<RawDropSetB, JNum(<<"3">>), RawDropSetA>>),
   JArr(<<JObj([reps |-> FieldThrowing])>>)}

RawSetObjects ==
  {JObj([weight |-> w, reps |-> r, speed |-> sp, dropSets |-> d]) :
     w \in {Undef, FieldPlain, FieldNumber},
     r \in {JNull, FieldDirty},
     sp \in {Undef, FieldArray},
     d \in RawDropSetLists}
  \cup {JObj(NoFields), JObj([weight |-> FieldThrowing]),
        JObj([weight |-> JBool(TRUE), reps |-> FieldObject])}

RawSetPlain == JObj([weight |-> FieldPlain, reps |-> JStr(<<"1", "2">>)])

\* values of the sets field of a persisted exercise
RawSetLists ==
  {Undef, JStr(<<"x">>), JArr(<<>>), JArr(<<JNull, JNum(<<"5">>), JArr(<<>>)>>),
   JArr(<<RawSetPlain, JNull, RawSetPlain>>)}
  \cup {JArr(<<x>>) : x \in RawSetObjects}

\* a name longer than every name cap, with a blank at position 90
NameLong == Rep("n", 89) \o <<" ", "z", "z">>

NoteLong == Rep("x", 141)

RawNames ==
  {Undef, JNum(<<"7">>), JStr(<<>>), JStr(<<" ", " ">>),
   JStr(<<" ", "A", " ">>), JStr(NameBP), JStr(AliasB), JStr(NameLong)}

RawNotes == {Undef, JNum(<<"7">>), JStr(<<"h", "i">>), JStr(NoteLong)}

RawExpanded == {Undef, JBool(TRUE), JNum(<<"0">>), JStr(<<"n", "o">>)}

RawItem(name, note, expanded, sets) ==
  JObj([name |-> name, note |-> note, expanded |-> expanded, sets |-> sets])

RawItemPlain ==
  RawItem(JStr(<<"A">>), Undef, Undef, JArr(<<RawSetPlain>>))

RawItemBare == JObj([name |-> JStr(NameSQ)])

\* two persisted exercises whose expanded flag is truthy
RawItemOpenA == RawItem(JStr(<<"A">>), Undef, JBool(TRUE), Undef)

RawItemOpenB == RawItem(JStr(NameSQ), Undef, JStr(<<"n", "o">>), Undef)

\* elements of a persisted plan array
RawItems ==
  {JNull, JNum(<<"3">>), JStr(<<"A">>), JBool(TRUE), JArr(<<RawItemPlain>>),
   JObj(NoFields), RawItemBare}
  \cup {RawItem(n, Undef, Undef, JArr(<<RawSetPlain>>)) : n \in RawNames}
  \cup {RawItem(JStr(<<"A">>), x, Undef, Undef) : x \in RawNotes}
  \cup {RawItem(JStr(<<"A">>), Undef, x, Undef) : x \in RawExpanded}
  \cup {RawItem(JStr(<<"A">>), Undef, Undef, x) : x \in RawSetLists}

\* the elements that longer arrays are made of
RawItemsCore == {JNull, JObj([sets |-> JArr(<<RawSetPlain>>)]), RawItemPlain, RawItemBare}

\* values under a plan key of the persisted object
RawPlanValues ==
  {Undef, JNull, JStr(<<"A">>), JObj([name |-> JStr(<<"A">>)]), JArr(<<>>)}
  \cup {JArr(<<x>>) : x \in RawItems}
  \cup UNION {{JArr(q) : q \in [1..n -> RawItemsCore]} : n \in 2..MaxBlobItems}

\* the persisted object: one plan key holds any value, the other keys of the
\* full application are all absent or all hold one plain exercise; "legs" is a
\* key no revision knows
RawSessionObjects ==
  {JObj([k \in DayPlanIds \cup {"legs"} |->
           IF k = focus THEN value
           ELSE IF k = "legs" THEN JArr(<<RawItemPlain>>)
           ELSE rest]) :
     focus \in DayPlanIds, value \in RawPlanValues,
     rest \in {Undef, JArr(<<RawItemBare>>)}}

\* the persisted texts
SessionBlobs ==
  {NoItem, EmptyText, BadText}
  \cup {JsonText(x) : x \in {JNull, JNum(<<"0">>), JNum(<<"7">>), JStr(<<"A">>),
                             JBool(FALSE), JBool(TRUE), JArr(<<>>),
                             JArr(<<RawItemPlain>>), JArr(<<JNull>>),
                             JArr(<<RawItemBare, JNull, RawItemPlain>>),
                             JObj(NoFields),
                             JObj([upper |-> JArr(<<RawItemOpenA, RawItemOpenB>>)])}}
  \cup {JsonText(x) : x \in RawSessionObjects}

(***************************************************************************)
(* Persisted profiles of the model                                         *)
(***************************************************************************)
\* a date longer than the date cap
DateLong == Rep("d", 33)

RawDates ==
  {Undef, JNum(<<"7">>), JStr(<<>>), JStr(<<"0", "1", ".", "1", "1">>),
   JStr(DateLong)}

\* a persisted measurement entry with the two canonical fields that have a
\* legacy name, the two legacy fields, and one plain numeric field
RawMeasurement(date, glutes, hips, belly, fat, weight) ==
  JObj([date |-> date, glutes |-> glutes, hips |-> hips, belly |-> belly,
        fat |-> fat, weight |-> weight])

RawMeasurementEntries ==
  {RawMeasurement(date, glutes, hips, belly, fat, weight) :
     date \in RawDates,
     glutes \in {Undef, JNull, JStr(<<>>), JStr(<<"9", "5">>)},
     hips \in {Undef, JStr(<<"8", "8", "c", "m">>)},
     belly \in {Undef, JNull, FieldNumber},
     fat \in {Undef, FieldDirty},
     weight \in {Undef, FieldPlain, FieldThrowing}}

RawMeasurementA ==
  RawMeasurement(JStr(<<"0", "1", ".", "1", "1">>), Undef, JStr(<<"8", "8">>),
                 Undef, Undef, FieldPlain)

RawMeasurementB ==
  RawMeasurement(JStr(<<"0", "2", ".", "1", "1">>), JStr(<<"9", "5">>),
                 JStr(<<"8", "8">>), JNull, FieldDirty, Undef)

\* values of the measurements field of a persisted profile
RawMeasurementLists ==
  {Undef, JNull, JStr(<<"x">>), JObj(NoFields), JArr(<<>>),
   JArr(<<JNull, RawMeasurementB, JNum(<<"3">>), JArr(<<RawMeasurementA>>),
          RawMeasurementA, JObj(NoFields), RawMeasurementB>>)}
  \cup {JArr(<<x>>) : x \in RawMeasurementEntries}

\* the persisted profile texts
ProfileBlobs ==
  {NoItem, EmptyText, BadText, JsonText(JNull), JsonText(JArr(<<>>)),
   JsonText(JStr(<<"A">>))}
  \cup {JsonText(JObj([height |-> JStr(<<"1", "8", "0">>), measurements |-> x])) :
          x \in RawMeasurementLists}

(***************************************************************************)
(* Rest timer of the full application (src/src/App.tsx)                    *)
(***************************************************************************)
DEFAULT_REST_SECONDS == 90

\* digit cap of the two duration inputs
RestInputDigits == 2

\* upper clamps of startRestTimer
MaxRestMinutes == 99

MaxRestSeconds == 59

\* the notices the timer sets (stand-ins for the Russian texts), and no notice
NoNotice == "none"

NoticeSetRestTime == "set the rest time"

NoticeRestDone == "rest is over"

DigitValue(c) == CHOOSE d \in 0..9 : ToString(d) = c

\* Number(text) for a text of decimal digits ("" gives 0)
RECURSIVE NumberOfDigits(_)
NumberOfDigits(text) ==
  IF text = <<>> THEN 0
  ELSE 10 * NumberOfDigits(SubSeq(text, 1, Len(text) - 1)) + DigitValue(text[Len(text)])

\* String(n) for a natural number n
RECURSIVE StringOfNat(_)
StringOfNat(n) ==
  IF n < 10 THEN <<ToString(n)>>
  ELSE StringOfNat(n \div 10) \o <<ToString(n % 10)>>

\* text.padStart(width, "0")
padStart(text, width) ==
  IF Len(text) >= width THEN text ELSE Rep("0", width - Len(text)) \o text

safeSecondsNoClamp(text) == Max(0, NumberOfDigits(text))

\* safeMinutes and safeSeconds of startRestTimer
safeMinutes(text) == Max(0, Min(MaxRestMinutes, NumberOfDigits(text)))

safeSeconds(text) == Max(0, Min(MaxRestSeconds, NumberOfDigits(text)))

\* total of startRestTimer
RestTotal(minutesText, secondsText) ==
  safeMinutes(minutesText) * 60 + safeSeconds(secondsText)

CountdownStepLate(current) ==
  IF current = <<>> THEN <<>>
  ELSE IF current[1] <= 0 THEN <<>>
  ELSE <<current[1] - 1>>

\* an updater that would hold the last second instead of ending
CountdownStepHolds(current) ==
  IF current = <<>> THEN <<>>
  ELSE IF current[1] <= 1 THEN current
  ELSE <<current[1] - 1>>

\* the updater the timeout callback hands to setRestSeconds
CountdownStep(current) ==
  IF current = <<>> THEN <<>>
  ELSE IF current[1] <= 1 THEN <<>>
  ELSE <<current[1] - 1>>

\* whether that updater takes its expiry branch (haptic "medium" and notice)
CountdownExpires(current) == current # <<>> /\ current[1] <= 1

\* the countdown effect after a render: with restSeconds unchanged the effect is
\* not run again and a pending timeout stays as it is; otherwise the cleanup
\* clears the timeout and one is scheduled unless restSeconds is null
RestEffect(previous, next, pending) ==
  IF next = previous THEN pending ELSE next # <<>>

\* the same effect that never clears the timeout it set
ArmedAfterEffectNoCleanup(previous, next, own, armed) ==
  IF next = previous THEN armed
  ELSE armed + (IF next # <<>> THEN 1 ELSE 0)

\* the number of armed timeouts after a render: when restSeconds changed, the
\* cleanup clears the timeout of the previous effect run (own says whether it
\* is still armed) and the new run sets one unless restSeconds is null
ArmedAfterEffect(previous, next, own, armed) ==
  IF next = previous THEN armed
  ELSE (IF own THEN armed - 1 ELSE armed) + (IF next # <<>> THEN 1 ELSE 0)

(***************************************************************************)
(* Full application: profile, custom programs and the persisted texts      *)
(***************************************************************************)
\* null, for a program id (a program id is a non-empty string)
NullId == <<>>

\* the text createId returns for the n-th id drawn
IdText(n) == <<"u">> \o StringOfNat(n)

ProfileFields ==
  {"height", "weight", "chest", "waist", "glutes", "thighs", "belly"}

MeasurementCap == 40

DateChars == 32

ProgramNameChars == 60

ManualNameChars == 80

buildDefaultProfile ==
  [height |-> <<>>, weight |-> <<>>, chest |-> <<>>, waist |-> <<>>,
   glutes |-> <<>>, thighs |-> <<>>, belly |-> <<>>, measurements |-> <<>>]

\* the seven numeric fields read without the two legacy names
ProfileNumbersNoLegacy(item) ==
  [f \in ProfileFields |-> sanitizeNumber(Get(item, f), ProfileDigits)]

\* the seven numeric fields loadProfileState reads from a plain object
ProfileNumbers(item) ==
  [height |-> sanitizeNumber(Get(item, "height"), ProfileDigits),
   weight |-> sanitizeNumber(Get(item, "weight"), ProfileDigits),
   chest |-> sanitizeNumber(Get(item, "chest"), ProfileDigits),
   waist |-> sanitizeNumber(Get(item, "waist"), ProfileDigits),
   glutes |-> sanitizeNumber(Coalesce(Get(item, "glutes"), Get(item, "hips")),
                             ProfileDigits),
   thighs |-> sanitizeNumber(Get(item, "thighs"), ProfileDigits),
   belly |-> sanitizeNumber(Coalesce(Get(item, "belly"), Get(item, "fat")),
                            ProfileDigits)]

ProfileNumbersThrow(item) ==
  \/ \E f \in {"height", "weight", "chest", "waist", "thighs"} :
       sanitizeNumberThrows(Get(item, f))
  \/ sanitizeNumberThrows(Coalesce(Get(item, "glutes"), Get(item, "hips")))
  \/ sanitizeNumberThrows(Coalesce(Get(item, "belly"), Get(item, "fat")))

\* the date loadProfileState reads from a measurement: "" when unusable
RawDate(item) ==
  IF Get(item, "date").t = "string"
  THEN Slice(Get(item, "date").v, DateChars) ELSE <<>>

\* the body of the map callback of loadProfileState
normalizeMeasurement(rawItem) ==
  LET item == parseObject(rawItem)
  IN IF item = JNull THEN Dropped
     ELSE IF RawDate(item) = <<>> THEN Dropped
     ELSE [id |-> 0, date |-> RawDate(item), height |-> ProfileNumbers(item).height,
           weight |-> ProfileNumbers(item).weight,
           chest |-> ProfileNumbers(item).chest,
           waist |-> ProfileNumbers(item).waist,
           glutes |-> ProfileNumbers(item).glutes,
           thighs |-> ProfileNumbers(item).thighs,
           belly |-> ProfileNumbers(item).belly]

RawMeasurements(parsed) ==
  IF Get(parsed, "measurements").t = "array"
  THEN Get(parsed, "measurements").v ELSE <<>>

loadProfileStateThrows(parsed) ==
  \/ \E i \in 1..Len(RawMeasurements(parsed)) :
       LET item == parseObject(RawMeasurements(parsed)[i])
       IN item # JNull /\ RawDate(item) # <<>> /\ ProfileNumbersThrow(item)
  \/ ProfileNumbersThrow(parsed)

\* loadProfileState(), reading the text raw; the ids it draws start at base
loadProfileState(raw, base) ==
  IF raw.t \in {"absent", "empty", "invalid"} THEN buildDefaultProfile
  ELSE LET parsed == parseObject(raw.v)
       IN IF parsed = JNull THEN buildDefaultProfile
          ELSE IF loadProfileStateThrows(parsed) THEN buildDefaultProfile
          ELSE LET kept == Filter([i \in 1..Len(RawMeasurements(parsed)) |->
                                     normalizeMeasurement(RawMeasurements(parsed)[i])],
                                  IsKept)
               IN [height |-> ProfileNumbers(parsed).height,
                   weight |-> ProfileNumbers(parsed).weight,
                   chest |-> ProfileNumbers(parsed).chest,
                   waist |-> ProfileNumbers(parsed).waist,
                   glutes |-> ProfileNumbers(parsed).glutes,
                   thighs |-> ProfileNumbers(parsed).thighs,
                   belly |-> ProfileNumbers(parsed).belly,
                   measurements |-> [i \in 1..Len(kept) |->
                                       [kept[i] EXCEPT !.id = base + i - 1]]]

\* the name loadCustomPrograms reads from an element: "" when unusable
RawProgramName(item) ==
  IF Get(item, "name").t = "string" /\ Len(Trim(Get(item, "name").v)) > 0
  THEN Slice(Trim(Get(item, "name").v), ProgramNameChars)
  ELSE <<>>

\* whether loadCustomPrograms keeps the persisted id of an element
KeepsProgramId(item) ==
  Get(item, "id").t = "string" /\ Get(item, "id").v # <<>>

\* the programs loadCustomPrograms builds from the elements, and the next id
\* to draw: a kept element draws its own id (unless it keeps the persisted
\* one), then the ids of its exercises
RECURSIVE ProgramsFrom(_, _)
ProgramsFrom(items, base) ==
  IF items = <<>> THEN [programs |-> <<>>, next |-> base]
  ELSE LET item == parseObject(Head(items))
       IN IF item = JNull \/ RawProgramName(item) = <<>>
          THEN ProgramsFrom(Tail(items), base)
          ELSE LET own == IF KeepsProgramId(item) THEN 0 ELSE 1
                   exercises == WithIds(normalizeExercises(Get(item, "exercises")),
                                        base + own)
                   rest == ProgramsFrom(Tail(items), base + own + CountIds(exercises))
               IN [programs |->
                     <<[id |-> IF KeepsProgramId(item) THEN Get(item, "id").v
                               ELSE IdText(base),
                        name |-> RawProgramName(item),
                        exercises |-> exercises]>> \o rest.programs,
                   next |-> rest.next]

loadCustomProgramsThrows(parsed) ==
  \E i \in 1..Len(parsed.v) :
    LET item == parseObject(parsed.v[i])
    IN /\ item # JNull
       /\ RawProgramName(item) # <<>>
       /\ normalizeExercisesThrows(Get(item, "exercises"))

\* loadCustomPrograms(), reading the text raw, with the next id to draw
loadCustomPrograms(raw, base) ==
  IF raw.t \in {"absent", "empty", "invalid"} THEN [programs |-> <<>>, next |-> base]
  ELSE IF raw.v.t # "array" THEN [programs |-> <<>>, next |-> base]
  ELSE IF loadCustomProgramsThrows(raw.v) THEN [programs |-> <<>>, next |-> base]
  ELSE ProgramsFrom(raw.v.v, base)

LogTitleChars == 80

\* the title loadWorkoutLogs gives an entry whose title is not a string
DefaultLogTitle == <<"W", "o", "r", "k", "o", "u", "t">>

KeepsLogId(item) ==
  Get(item, "id").t = "string" /\ Get(item, "id").v # <<>>

\* the dateKey loadWorkoutLogs reads from an element: "" when unusable
RawDateKey(item) ==
  IF Get(item, "dateKey").t = "string" THEN Get(item, "dateKey").v ELSE <<>>

\* the entries loadWorkoutLogs builds from the elements, and the next id to
\* draw: a kept element keeps a non-empty string id and draws one otherwise
RECURSIVE LogsFrom(_, _)
LogsFrom(items, base) ==
  IF items = <<>> THEN [logs |-> <<>>, next |-> base]
  ELSE LET item == parseObject(Head(items))
       IN IF item = JNull \/ RawDateKey(item) = <<>>
          THEN LogsFrom(Tail(items), base)
          ELSE LET own == IF KeepsLogId(item) THEN 0 ELSE 1
                   rest == LogsFrom(Tail(items), base + own)
               IN [logs |->
                     <<[id |-> IF KeepsLogId(item) THEN Get(item, "id").v
                               ELSE IdText(base),
                        dateKey |-> RawDateKey(item),
                        title |-> IF Get(item, "title").t = "string"
                                  THEN Slice(Get(item, "title").v, LogTitleChars)
                                  ELSE DefaultLogTitle]>> \o rest.logs,
                   next |-> rest.next]

\* loadWorkoutLogs(), reading the text raw, with the next id to draw
loadWorkoutLogs(raw, base) ==
  IF raw.t \in {"absent", "empty", "invalid"} THEN [logs |-> <<>>, next |-> base]
  ELSE IF raw.v.t # "array" THEN [logs |-> <<>>, next |-> base]
  ELSE LogsFrom(raw.v.v, base)

(***************************************************************************)
(* Full application: what the persist effects write (JSON.stringify)       *)
(***************************************************************************)
\* JSON.stringify(workoutLogs)
LogsJson(logs) ==
  JArr([i \in 1..Len(logs) |->
          JObj([id |-> JStr(logs[i].id), dateKey |-> JStr(logs[i].dateKey),
                title |-> JStr(logs[i].title)])])

DropSetJson(dropSet) ==
  JObj([id |-> JStr(IdText(dropSet.id)),
        weight |-> JStr(dropSet.weight),
        reps |-> JStr(dropSet.reps)])

SetJson(setItem) ==
  JObj([id |-> JStr(IdText(setItem.id)),
        weight |-> JStr(setItem.weight),
        reps |-> JStr(setItem.reps),
        speed |-> JStr(setItem.speed),
        dropSets |-> JArr([k \in 1..Len(setItem.dropSets) |->
                             DropSetJson(setItem.dropSets[k])])])

ExerciseJson(exercise) ==
  JObj([id |-> JStr(IdText(exercise.id)),
        name |-> JStr(exercise.name),
        note |-> JStr(exercise.note),
        expanded |-> JBool(exercise.expanded),
        sets |-> JArr([j \in 1..Len(exercise.sets) |-> SetJson(exercise.sets[j])])])

ExercisesJson(exercises) ==
  JArr([i \in 1..Len(exercises) |-> ExerciseJson(exercises[i])])

SessionJson(session) ==
  JObj([p \in DayPlanIds |-> ExercisesJson(session[p])])

ProgramsJson(programs) ==
  JArr([i \in 1..Len(programs) |->
          JObj([id |-> JStr(programs[i].id),
                name |-> JStr(programs[i].name),
                exercises |-> ExercisesJson(programs[i].exercises)])])

MeasurementJson(entry) ==
  JObj([id |-> JStr(IdText(entry.id)), date |-> JStr(entry.date),
        height |-> JStr(entry.height), weight |-> JStr(entry.weight),
        chest |-> JStr(entry.chest), waist |-> JStr(entry.waist),
        glutes |-> JStr(entry.glutes), thighs |-> JStr(entry.thighs),
        belly |-> JStr(entry.belly)])

ProfileJson(state) ==
  JObj([height |-> JStr(state.height), weight |-> JStr(state.weight),
        chest |-> JStr(state.chest), waist |-> JStr(state.waist),
        glutes |-> JStr(state.glutes), thighs |-> JStr(state.thighs),
        belly |-> JStr(state.belly),
        measurements |-> JArr([i \in 1..Len(state.measurements) |->
                                 MeasurementJson(state.measurements[i])])])

\* localStorage after the three persist effects have run
Persisted(session, programs, state) ==
  [session |-> JsonText(SessionJson(session)),
   programs |-> JsonText(ProgramsJson(programs)),
   profile |-> JsonText(ProfileJson(state))]

(***************************************************************************)
(* Full application: derived values and list updates of the component     *)
(***************************************************************************)
UpperCase ==
  <<"A", "B", "C", "D", "E", "F", "G", "H", "I", "J", "K", "L", "M",
    "N", "O", "P", "Q", "R", "S", "T", "U", "V", "W", "X", "Y", "Z">>

LowerCase ==
  <<"a", "b", "c", "d", "e", "f", "g", "h", "i", "j", "k", "l", "m",
    "n", "o", "p", "q", "r", "s", "t", "u", "v", "w", "x", "y", "z">>

\* String.prototype.toLowerCase
toLowerCase(text) ==
  [i \in 1..Len(text) |->
     IF \E k \in 1..26 : UpperCase[k] = text[i]
     THEN LowerCase[CHOOSE k \in 1..26 : UpperCase[k] = text[i]]
     ELSE text[i]]

\* Array.prototype.map that changes the elements with the given id
MapById(list, id, F(_)) ==
  [i \in 1..Len(list) |-> IF list[i].id = id THEN F(list[i]) ELSE list[i]]

\* Array.prototype.filter that drops the elements with the given id
DropById(list, id) ==
  LET Keep(x) == x.id # id IN Filter(list, Keep)

effectiveCustomProgramId ==
  IF selectedCustomProgramId # NullId THEN selectedCustomProgramId
  ELSE IF Len(customPrograms) > 0 THEN customPrograms[1].id
  ELSE NullId

HasSelectedCustomProgram ==
  /\ effectiveCustomProgramId # NullId
  /\ \E i \in 1..Len(customPrograms) :
       customPrograms[i].id = effectiveCustomProgramId

\* customPrograms.find(...), when it finds one
selectedCustomProgram ==
  customPrograms[CHOOSE i \in 1..Len(customPrograms) :
                   /\ customPrograms[i].id = effectiveCustomProgramId
                   /\ \A j \in 1..(i - 1) :
                        customPrograms[j].id # effectiveCustomProgramId]

activeExercises ==
  IF selectedPlanId = "custom"
  THEN IF HasSelectedCustomProgram THEN selectedCustomProgram.exercises ELSE <<>>
  ELSE sessionByPlan[selectedPlanId]

\* updateExercisesForPlan(planId, updater): the two lists after it
SessionAfter(planId, Updater(_)) ==
  IF planId = "custom" THEN sessionByPlan
  ELSE [sessionByPlan EXCEPT ![planId] = Updater(sessionByPlan[planId])]

ProgramsAfter(planId, Updater(_)) ==
  IF planId # "custom" \/ effectiveCustomProgramId = NullId THEN customPrograms
  ELSE [i \in 1..Len(customPrograms) |->
          IF customPrograms[i].id = effectiveCustomProgramId
          THEN [customPrograms[i] EXCEPT
                  !.exercises = Updater(customPrograms[i].exercises)]
          ELSE customPrograms[i]]

\* the name addExerciseToPlan and toggleExerciseInCustomProgram store
NormalizedName(exerciseName) == Trim(CanonicalName(exerciseName))

HasName(list, name) ==
  \E i \in 1..Len(list) : toLowerCase(list[i].name) = toLowerCase(name)

(***************************************************************************)
(* Tabbed revision: what the persist effect writes, and the component at   *)
(* rest                                                                    *)
(***************************************************************************)
ExerciseJsonV4(exercise) ==
  JObj([id |-> JStr(IdText(exercise.id)),
        name |-> JStr(exercise.name),
        expanded |-> JBool(exercise.expanded),
        sets |-> JArr([j \in 1..Len(exercise.sets) |->
                         JObj([id |-> JStr(IdText(exercise.sets[j].id)),
                               weight |-> JStr(exercise.sets[j].weight),
                               reps |-> JStr(exercise.sets[j].reps)])])])

\* JSON.stringify(sessionByPlan) as the persist effect stores it
PersistedV4(session) ==
  JsonText(JObj([p \in DayPlanIdsV4 |->
                   JArr([i \in 1..Len(session[p]) |-> ExerciseJsonV4(session[p][i])])]))

(***************************************************************************)
(* Harness variables at rest                                               *)
(***************************************************************************)
\* the first id createId draws
FirstId == 1

\* a result that has not been computed yet
Pending == <<"pending">>

SanIdle == sanValue = Undef /\ sanCap = 0 /\ sanResult = Pending

CalIdle ==
  /\ anchorDate = Pending
  /\ now = Pending
  /\ monthCalendar = Pending
  /\ weekStart = <<>>
  /\ weekStartV3 = <<>>

LoadIdle ==
  /\ blob = NoItem
  /\ loaders = {}
  /\ loadedApp = Pending
  /\ loadedV4 = Pending
  /\ loadedV3 = Pending
  /\ loadedProfile = Pending

\* the timer as the component's state hooks initialise it
TimerIdle ==
  /\ restMinutesInput = StringOfNat(DEFAULT_REST_SECONDS \div 60)
  /\ restSecondsInput = padStart(StringOfNat(DEFAULT_REST_SECONDS % 60), 2)
  /\ restSeconds = <<>>
  /\ isRestPanelOpen = FALSE
  /\ tickScheduled = FALSE
  /\ notice = NoNotice
  /\ countTotal = 0
  /\ ticks = 0
  /\ expiries = 0
  /\ cancelledBy = "nothing"
  /\ lastOp = "other"
  /\ pendingTicks = 0
  /\ tickStale = FALSE
  /\ lastTickStale = FALSE
  /\ replacedRunning = FALSE

\* the tabbed revision as it is built over an empty localStorage
V4Idle ==
  /\ selectedPlanIdV4 = "upper"
  /\ sessionByPlanV4 = buildDefaultSessionByPlanV4(FirstId)
  /\ restSecondsV4 = <<>>
  /\ tickScheduledV4 = FALSE
  /\ noticeV4 = NoNotice
  /\ nextIdV4 = FirstId + CountIdsV4(DefaultListsV4)
  /\ stepsV4 = 0
  /\ storageV4 = PersistedV4(buildDefaultSessionByPlanV4(FirstId))
  /\ lastOpV4 = "none"

\* the store as the component builds it over an empty localStorage
StoreIdle ==
  /\ screen = "home"
  /\ selectedPlanId = "upper"
  /\ sessionByPlan = buildDefaultSessionByPlan
  /\ customPrograms = <<>>
  /\ selectedCustomProgramId = NullId
  /\ pendingDeleteCustomProgramId = NullId
  /\ profile = buildDefaultProfile
  /\ nextId = FirstId
  /\ steps = 0
  /\ storage = Persisted(buildDefaultSessionByPlan, <<>>, buildDefaultProfile)
  /\ workoutLogs = <<>>
  /\ storedLogs = JsonText(LogsJson(<<>>))
  /\ markClean = FALSE
  /\ stepBudget = MaxSteps

(***************************************************************************)
(* SpecSanitize: sanitizeNumber applied to bounded inputs                  *)
(***************************************************************************)
SanChars == {"0", "1", "9", "a", "-", " "}

SanStrings == UNION {[1..n -> SanChars] : n \in 0..MaxStrLen}

SanValues ==
  {JStr(x) : x \in SanStrings}
  \cup {Undef, JNull, JBool(TRUE), FieldNumber, FieldArray, FieldObject}

InitSanitize ==
  /\ sanValue \in SanValues
  /\ sanCap \in 0..MaxCap
  /\ sanResult = Pending
  /\ LoadIdle
  /\ TimerIdle
  /\ StoreIdle
  /\ V4Idle
  /\ CalIdle

Sanitize ==
  /\ sanResult = Pending
  /\ ~sanitizeNumberThrows(sanValue)
  /\ sanResult' = sanitizeNumber(sanValue, sanCap)
  /\ UNCHANGED <<sanValue, sanCap, loadVars, calVars, timerVars, storeVars, v4Vars>>

NextSanitize == Sanitize

SpecSanitize == InitSanitize /\ [][NextSanitize]_vars

(***************************************************************************)
(* SpecLoad: the three loaders applied to bounded persisted texts          *)
(***************************************************************************)
InitLoad ==
  /\ blob \in SessionBlobs
  /\ loaders = {}
  /\ loadedApp = Pending
  /\ loadedV4 = Pending
  /\ loadedV3 = Pending
  /\ loadedProfile = Pending
  /\ SanIdle
  /\ CalIdle
  /\ TimerIdle
  /\ StoreIdle
  /\ V4Idle

LoadApp ==
  /\ "LoadApp" \notin loaders
  /\ loaders' = loaders \cup {"LoadApp"}
  /\ loadedApp' = loadSessionByPlan(blob, FirstId)
  /\ UNCHANGED <<blob, loadedV4, loadedV3, loadedProfile, sanVars, calVars, timerVars, storeVars, v4Vars>>

LoadV4 ==
  /\ "LoadV4" \notin loaders
  /\ loaders' = loaders \cup {"LoadV4"}
  /\ loadedV4' = loadSessionByPlanV4(blob, FirstId)
  /\ UNCHANGED <<blob, loadedApp, loadedV3, loadedProfile, sanVars, calVars, timerVars, storeVars, v4Vars>>

LoadV3 ==
  /\ "LoadV3" \notin loaders
  /\ loaders' = loaders \cup {"LoadV3"}
  /\ loadedV3' = loadSessionV3(blob, FirstId)
  /\ UNCHANGED <<blob, loadedApp, loadedV4, loadedProfile, sanVars, calVars, timerVars, storeVars, v4Vars>>

NextLoad == LoadApp \/ LoadV4 \/ LoadV3

SpecLoad == InitLoad /\ [][NextLoad]_vars

(***************************************************************************)
(* SpecLoadProfile: loadProfileState applied to bounded persisted texts    *)
(***************************************************************************)
InitLoadProfile ==
  /\ blob \in ProfileBlobs
  /\ loaders = {}
  /\ loadedApp = Pending
  /\ loadedV4 = Pending
  /\ loadedV3 = Pending
  /\ loadedProfile = Pending
  /\ SanIdle
  /\ CalIdle
  /\ TimerIdle
  /\ StoreIdle
  /\ V4Idle

LoadProfile ==
  /\ "LoadProfile" \notin loaders
  /\ loaders' = loaders \cup {"LoadProfile"}
  /\ loadedProfile' = loadProfileState(blob, FirstId)
  /\ UNCHANGED <<blob, loadedApp, loadedV4, loadedV3, sanVars, calVars, timerVars,
                 storeVars, v4Vars>>

NextLoadProfile == LoadProfile

SpecLoadProfile == InitLoadProfile /\ [][NextLoadProfile]_vars

(***************************************************************************)
(* SpecTimer: the rest timer of the full application                       *)
(***************************************************************************)
\* what the user types into the minutes and the seconds input
TypedMinutes == {<<>>, <<"0">>, <<"a", "1">>}

TypedSeconds == {<<>>, <<"0", "0">>, <<"5">>, <<"3", "x", "0">>, <<"7", "5", "1">>}

InitTimer ==
  /\ TimerIdle
  /\ SanIdle
  /\ CalIdle
  /\ LoadIdle
  /\ StoreIdle
  /\ V4Idle

tickVars == <<pendingTicks, tickStale, lastTickStale, replacedRunning>>

historyVars == <<countTotal, ticks, expiries, cancelledBy, tickVars>>

\* onChange of the minutes input (rendered while the panel is open)
updateRestMinutes ==
  /\ isRestPanelOpen
  /\ \E text \in TypedMinutes :
       restMinutesInput' = sanitizeNumber(JStr(text), RestInputDigits)
  /\ lastOp' = "other"
  /\ UNCHANGED <<restSecondsInput, restSeconds, isRestPanelOpen, tickScheduled,
                 notice, historyVars, sanVars, calVars, loadVars, storeVars, v4Vars>>

\* onChange of the seconds input
updateRestSeconds ==
  /\ isRestPanelOpen
  /\ \E text \in TypedSeconds :
       restSecondsInput' = sanitizeNumber(JStr(text), RestInputDigits)
  /\ lastOp' = "other"
  /\ UNCHANGED <<restMinutesInput, restSeconds, isRestPanelOpen, tickScheduled,
                 notice, historyVars, sanVars, calVars, loadVars, storeVars, v4Vars>>

\* the panel toggle (setIsRestPanelOpen(prev => !prev)); the hide button of the
\* idle panel does the same to an open panel
toggleRestPanel ==
  /\ isRestPanelOpen' = ~isRestPanelOpen
  /\ lastOp' = "other"
  /\ UNCHANGED <<restMinutesInput, restSecondsInput, restSeconds, tickScheduled,
                 notice, historyVars, sanVars, calVars, loadVars, storeVars, v4Vars>>

stopRestTimerKeepsCountdown ==
  /\ isRestPanelOpen
  /\ restSeconds # <<>>
  /\ isRestPanelOpen' = FALSE
  /\ cancelledBy' = "stop"
  /\ lastOp' = "other"
  /\ UNCHANGED <<restMinutesInput, restSecondsInput, restSeconds, tickScheduled,
                 notice, countTotal, ticks, expiries, tickVars,
                 sanVars, calVars, loadVars, storeVars, v4Vars>>

startRestTimerRejectStops ==
  /\ isRestPanelOpen
  /\ LET total == RestTotal(restMinutesInput, restSecondsInput)
     IN IF total <= 0
        THEN /\ notice' = NoticeSetRestTime
             /\ lastOp' = "startRestTimer"
             /\ restSeconds' = <<>>
             /\ tickScheduled' = FALSE
             /\ UNCHANGED <<restMinutesInput, restSecondsInput,
                            isRestPanelOpen, historyVars>>
        ELSE /\ restMinutesInput' = StringOfNat(safeMinutes(restMinutesInput))
             /\ restSecondsInput' =
                  padStart(StringOfNat(safeSeconds(restSecondsInput)), 2)
             /\ restSeconds' = <<total>>
             /\ isRestPanelOpen' = TRUE
             /\ tickScheduled' = RestEffect(restSeconds, <<total>>, tickScheduled)
             /\ pendingTicks' = ArmedAfterEffect(restSeconds, <<total>>,
                                                tickScheduled, pendingTicks)
             /\ tickStale' = (restSeconds = <<total>> /\ tickScheduled)
             /\ lastTickStale' = FALSE
             /\ replacedRunning' = (restSeconds # <<>>)
             /\ countTotal' = total
             /\ ticks' = 0
             /\ expiries' = 0
             /\ cancelledBy' = "nothing"
             /\ lastOp' = "startRestTimer"
             /\ UNCHANGED notice
  /\ UNCHANGED <<sanVars, calVars, loadVars, storeVars, v4Vars>>

\* the start button (rendered while the panel is open, also during a countdown)
startRestTimer ==
  /\ isRestPanelOpen
  /\ LET total == RestTotal(restMinutesInput, restSecondsInput)
     IN IF total <= 0
        THEN /\ notice' = NoticeSetRestTime
             /\ lastOp' = "startRestTimer"
             /\ UNCHANGED <<restMinutesInput, restSecondsInput, restSeconds,
                            isRestPanelOpen, tickScheduled, historyVars>>
        ELSE /\ restMinutesInput' = StringOfNat(safeMinutes(restMinutesInput))
             /\ restSecondsInput' =
                  padStart(StringOfNat(safeSeconds(restSecondsInput)), 2)
             /\ restSeconds' = <<total>>
             /\ isRestPanelOpen' = TRUE
             /\ tickScheduled' = RestEffect(restSeconds, <<total>>, tickScheduled)
             /\ pendingTicks' = ArmedAfterEffect(restSeconds, <<total>>,
                                                tickScheduled, pendingTicks)
             /\ tickStale' = (restSeconds = <<total>> /\ tickScheduled)
             /\ lastTickStale' = FALSE
             /\ replacedRunning' = (restSeconds # <<>>)
             /\ countTotal' = total
             /\ ticks' = 0
             /\ expiries' = 0
             /\ cancelledBy' = "nothing"
             /\ lastOp' = "startRestTimer"
             /\ UNCHANGED notice
  /\ UNCHANGED <<sanVars, calVars, loadVars, storeVars, v4Vars>>

\* the stop button (rendered in the open panel during a countdown)
stopRestTimer ==
  /\ isRestPanelOpen
  /\ restSeconds # <<>>
  /\ restSeconds' = <<>>
  /\ tickScheduled' = RestEffect(restSeconds, <<>>, tickScheduled)
  /\ pendingTicks' = ArmedAfterEffect(restSeconds, <<>>, tickScheduled, pendingTicks)
  /\ tickStale' = FALSE
  /\ cancelledBy' = "stop"
  /\ lastOp' = "other"
  /\ UNCHANGED <<restMinutesInput, restSecondsInput, isRestPanelOpen, notice,
                 countTotal, ticks, expiries, lastTickStale, replacedRunning,
                 sanVars, calVars, loadVars, storeVars, v4Vars>>

\* closeWorkoutDrawers: the rest panel closes and the countdown is dropped
\* (the two drawer flags it also clears are not part of the model)
closeWorkoutDrawers ==
  /\ isRestPanelOpen' = FALSE
  /\ restSeconds' = <<>>
  /\ tickScheduled' = RestEffect(restSeconds, <<>>, tickScheduled)
  /\ pendingTicks' = ArmedAfterEffect(restSeconds, <<>>, tickScheduled, pendingTicks)
  /\ tickStale' = FALSE
  /\ cancelledBy' = IF restSeconds # <<>> THEN "close" ELSE cancelledBy
  /\ lastOp' = "other"
  /\ UNCHANGED <<restMinutesInput, restSecondsInput, countTotal, ticks, expiries,
                 lastTickStale, replacedRunning>>

\* goHome, openProgress or openWorkout, as far as the timer is concerned
leaveWorkout ==
  /\ closeWorkoutDrawers
  /\ UNCHANGED <<notice, sanVars, calVars, loadVars, storeVars, v4Vars>>

\* the one-second timeout of the countdown effect fires
Tick ==
  /\ tickScheduled
  /\ restSeconds' = CountdownStep(restSeconds)
  /\ tickScheduled' = RestEffect(restSeconds, CountdownStep(restSeconds), FALSE)
  /\ pendingTicks' = ArmedAfterEffect(restSeconds, CountdownStep(restSeconds),
                                     FALSE, pendingTicks - 1)
  /\ tickStale' = FALSE
  /\ lastTickStale' = tickStale
  /\ notice' = IF CountdownExpires(restSeconds) THEN NoticeRestDone ELSE notice
  /\ expiries' = IF CountdownExpires(restSeconds) THEN expiries + 1 ELSE expiries
  /\ ticks' = ticks + 1
  /\ lastOp' = "other"
  /\ UNCHANGED <<restMinutesInput, restSecondsInput, isRestPanelOpen, replacedRunning,
                 countTotal, cancelledBy, sanVars, calVars, loadVars, storeVars, v4Vars>>

\* the 2300 ms timeout of the notice effect fires
clearNotice ==
  /\ notice # NoNotice
  /\ notice' = NoNotice
  /\ lastOp' = "other"
  /\ UNCHANGED <<restMinutesInput, restSecondsInput, restSeconds,
                 isRestPanelOpen, tickScheduled, historyVars, sanVars, calVars, loadVars, storeVars, v4Vars>>

NextTimer ==
  \/ updateRestMinutes
  \/ updateRestSeconds
  \/ toggleRestPanel
  \/ startRestTimer
  \/ stopRestTimer
  \/ leaveWorkout
  \/ Tick
  \/ clearNotice

SpecTimer == InitTimer /\ [][NextTimer]_vars

\* the browser fires a timeout that stays armed
SpecTimerFair == SpecTimer /\ WF_vars(Tick)

(***************************************************************************)
(* SpecTimerLong: the rest timer with the largest and the smallest         *)
(* durations typed into its two inputs                                     *)
(***************************************************************************)
\* what the two inputs hold after typing: two digits at most
LongMinutes == {<<"9", "9">>, <<"0">>}

LongSeconds == {<<"7", "5">>, <<"0", "1">>, <<"0", "0">>}

InitTimerLong ==
  /\ restMinutesInput \in LongMinutes
  /\ restSecondsInput \in LongSeconds
  /\ restSeconds = <<>>
  /\ isRestPanelOpen = FALSE
  /\ tickScheduled = FALSE
  /\ notice = NoNotice
  /\ countTotal = 0
  /\ ticks = 0
  /\ expiries = 0
  /\ cancelledBy = "nothing"
  /\ lastOp = "other"
  /\ pendingTicks = 0
  /\ tickStale = FALSE
  /\ lastTickStale = FALSE
  /\ replacedRunning = FALSE
  /\ SanIdle
  /\ CalIdle
  /\ LoadIdle
  /\ StoreIdle
  /\ V4Idle

NextTimerLong ==
  \/ toggleRestPanel
  \/ startRestTimer
  \/ stopRestTimer
  \/ leaveWorkout
  \/ Tick

SpecTimerLong == InitTimerLong /\ [][NextTimerLong]_vars

(***************************************************************************)
(* Spec: the store of the full application                                 *)
(***************************************************************************)
\* the notices the store sets (stand-ins for the Russian texts)
NoticeProgramCreated == "program created"

NoticeEnterName == "enter the exercise name"

NoticeCreateProgramFirst == "create a program first"

NoticeAdded == "added"

NoticeAlreadyListed == "already in the list"

NoticeRemovedFromProgram == "removed from the program"

NoticeExerciseRemoved == "exercise removed"

NoticeMinimumOneSet == "one set at least"

NoticeCleared == "workout cleared"

NoticeEmptyProgramDeleted == "empty program deleted"

NoticeSaved == "program saved"

NoticeProgramDeleted == "program deleted"

NoticeWorkoutDeleted == "workout deleted"

NoticeFillMeasurement == "fill in a measurement"

NoticeMeasurementSaved == "measurement saved"

\* a persisted exercise with an alias name, a note, two sets and a drop set
RawItemRich ==
  RawItem(JStr(AliasB), JStr(<<"h", "i">>), JBool(TRUE),
          JArr(<<JObj([weight |-> FieldPlain, reps |-> FieldDirty,
                       dropSets |-> JArr(<<RawDropSetA>>)]),
                 RawSetPlain>>))

StartSessionText ==
  JsonText(JObj([upper |-> JArr(<<RawItemRich>>), cardio |-> JArr(<<RawItemBare>>)]))

StartProgramsText ==
  JsonText(JArr(<<JObj([id |-> JStr(<<"p", "1">>),
                        name |-> JStr(<<" ", "G", "o", " ">>),
                        exercises |-> JArr(<<RawItemPlain>>)]),
                  JObj([name |-> JStr(<<"Q">>)])>>))

StartProfileText ==
  JsonText(JObj([height |-> JNum(<<"1", "8", "0">>), weight |-> FieldDirty,
                 hips |-> JStr(<<"9", "5", "c", "m">>),
                 measurements |->
                   JArr(<<JObj([date |-> JStr(<<"0", "1", ".", "1", "1">>),
                                weight |-> FieldNumber, fat |-> FieldArray]),
                          JNull,
                          JObj([weight |-> FieldPlain])>>)]))

StartLogsText ==
  JsonText(JArr(<<JObj([id |-> JStr(<<"w", "1">>),
                        dateKey |-> JStr(<<"1", "1", "-", "0", "1">>),
                        title |-> JNum(<<"7">>)]),
                  JObj([title |-> JStr(<<"n", "o">>)]),
                  JNull,
                  JObj([dateKey |-> JStr(<<"1", "1", "-", "0", "2">>),
                        title |-> JStr(<<"U", "p">>)])>>))

\* what localStorage holds when the component is constructed
StartStorage ==
  {[session |-> NoItem, programs |-> NoItem, profile |-> NoItem, logs |-> NoItem],
   [session |-> StartSessionText, programs |-> NoItem, profile |-> NoItem,
    logs |-> StartLogsText],
   [session |-> NoItem, programs |-> StartProgramsText, profile |-> StartProfileText,
    logs |-> NoItem],
   [session |-> StartSessionText, programs |-> StartProgramsText,
    profile |-> StartProfileText, logs |-> StartLogsText]}

\* what the user types
TypedNumbers == {<<"5", "0">>, <<"1", "2", "a", "3", "4">>}

TypedNotes == {<<"o", "k">>, NoteLong}

TypedExerciseNames == {<<" ", " ">>, <<" ", "M", "y", " ">>, AliasB}

TypedProgramNames == {<<" ">>, <<"P", "r", "o">>}

\* the names the dropdown and the library offer
OfferedNames == {NameBP, NameSQ}

\* the plans the user opens
OpenedPlans == {"upper", "cardio", "custom"}

TypedProfileFields == {"height", "glutes"}

\* new Date().toLocaleDateString("ru-RU", ...) on the day of the run
DateToday == <<"0", "3", ".", "1", "1">>

\* `Моя программа ${n}`
DefaultProgramName(n) == <<"M", "y", " ">> \o StringOfNat(n)

\* the timer variables a store handler leaves alone
timerCore ==
  <<restMinutesInput, restSecondsInput, restSeconds, isRestPanelOpen,
    tickScheduled, countTotal, ticks, expiries, cancelledBy, lastOp,
    pendingTicks, tickStale, lastTickStale, replacedRunning>>

\* the state hooks are initialised in the order sessionByPlan, customPrograms,
\* profile; the persist effects run after the first render
Init ==
  /\ SanIdle
  /\ CalIdle
  /\ LoadIdle
  /\ TimerIdle
  /\ V4Idle
  /\ screen = "home"
  /\ selectedPlanId = "upper"
  /\ selectedCustomProgramId = NullId
  /\ pendingDeleteCustomProgramId = NullId
  /\ steps = 0
  /\ \E start \in StartStorage :
       LET session == loadSessionByPlan(start.session, FirstId)
           loaded == loadCustomPrograms(start.programs, FirstId + SessionIds(session))
           logged == loadWorkoutLogs(start.logs, loaded.next)
           state == loadProfileState(start.profile, logged.next)
       IN /\ sessionByPlan = session
          /\ customPrograms = loaded.programs
          /\ workoutLogs = logged.logs
          /\ profile = state
          /\ nextId = logged.next + Len(state.measurements)
          /\ storage = Persisted(session, loaded.programs, state)
          /\ storedLogs = JsonText(LogsJson(logged.logs))
  /\ markClean = FALSE
  /\ stepBudget = MaxSteps

\* every handler call is counted
Edit == steps < stepBudget /\ steps' = steps + 1 /\ UNCHANGED stepBudget

\* some custom program holds an exercise after the step that it did not hold
\* before
ExerciseAdded ==
  \E i \in 1..Len(customPrograms') :
    \E k \in 1..Len(customPrograms'[i].exercises) :
      \A j \in 1..Len(customPrograms) :
        \A m \in 1..Len(customPrograms[j].exercises) :
          customPrograms[j].exercises[m].id # customPrograms'[i].exercises[k].id

\* the history of the pending-delete mark after a step; marks tells whether
\* the step is clearCurrentPlan
Track(marks) ==
  markClean' =
    IF marks THEN pendingDeleteCustomProgramId' # NullId
    ELSE /\ markClean
         /\ ~ExerciseAdded
         /\ selectedPlanId' = selectedPlanId
         /\ selectedCustomProgramId' = selectedCustomProgramId

\* persist effects that would write the state of the render before the change
PersistBeforeChange ==
  /\ storage' = Persisted(sessionByPlan, customPrograms, profile)
  /\ storedLogs' = JsonText(LogsJson(workoutLogs))
  /\ UNCHANGED <<sanVars, calVars, loadVars, v4Vars>>

\* the persist effects after the render, and what no store handler touches
Persist ==
  /\ storage' = Persisted(sessionByPlan', customPrograms', profile')
  /\ storedLogs' = JsonText(LogsJson(workoutLogs'))
  /\ UNCHANGED <<sanVars, calVars, loadVars, v4Vars>>

\* dayPlanById[planId].title, in stand-ins
PlanTitle ==
  [upper |-> <<"U", "p">>, lower |-> <<"L", "o">>, fullbody |-> <<"F", "b">>,
   cardio |-> <<"C", "a">>, custom |-> <<"O", "w", "n">>]

\* formatDateKey(new Date()) on the day of the run
DateKeyToday == <<"1", "1", "-", "0", "3">>

\* the title openWorkout logs: the plan title, or the name of the program
\* with the given or the effective id
LoggedTitle(planId, option) ==
  IF planId # "custom" THEN PlanTitle[planId]
  ELSE LET target == IF option # NullId THEN option ELSE effectiveCustomProgramId
           found == {i \in 1..Len(customPrograms) : customPrograms[i].id = target}
       IN IF found = {} THEN PlanTitle.custom
          ELSE customPrograms[CHOOSE i \in found : \A j \in found : i <= j].name

\* the cards of the home screen call openWorkout with logEvent, the buttons
\* of the navigation bar and of the progress screen open the selected plan
\* without it
openWorkout ==
  /\ \E planId \in OpenedPlans, logEvent \in BOOLEAN :
       \E option \in {NullId} \cup {customPrograms[i].id : i \in 1..Len(customPrograms)} :
         /\ option # NullId => (planId = "custom" /\ screen = "home")
         /\ screen = "home" \/ planId = selectedPlanId
         /\ logEvent => screen = "home"
         /\ ~logEvent => (planId = selectedPlanId /\ option = NullId)
         /\ selectedPlanId' = planId
         /\ selectedCustomProgramId' =
              IF planId # "custom" THEN selectedCustomProgramId
              ELSE IF option # NullId THEN option
              ELSE effectiveCustomProgramId
         /\ IF logEvent
            THEN /\ workoutLogs' =
                      Append(workoutLogs,
                             [id |-> IdText(nextId), dateKey |-> DateKeyToday,
                              title |-> LoggedTitle(planId, option)])
                 /\ nextId' = nextId + 1
            ELSE UNCHANGED <<workoutLogs, nextId>>
  /\ pendingDeleteCustomProgramId' = NullId
  /\ screen' = "workout"
  /\ closeWorkoutDrawers
  /\ Edit
  /\ UNCHANGED <<sessionByPlan, customPrograms, profile, notice>>
  /\ Track(FALSE)
  /\ Persist

goHome ==
  /\ screen' = "home"
  /\ pendingDeleteCustomProgramId' = NullId
  /\ closeWorkoutDrawers
  /\ Edit
  /\ UNCHANGED <<selectedPlanId, selectedCustomProgramId, sessionByPlan,
                 customPrograms, profile, nextId, notice>>
  /\ UNCHANGED workoutLogs
  /\ Track(FALSE)
  /\ Persist

openProgress ==
  /\ screen' = "progress"
  /\ pendingDeleteCustomProgramId' = NullId
  /\ closeWorkoutDrawers
  /\ Edit
  /\ UNCHANGED <<selectedPlanId, selectedCustomProgramId, sessionByPlan,
                 customPrograms, profile, nextId, notice>>
  /\ UNCHANGED workoutLogs
  /\ Track(FALSE)
  /\ Persist

createCustomProgram ==
  /\ screen = "home" \/ (screen = "workout" /\ selectedPlanId = "custom")
  /\ Edit
  /\ \E typed \in TypedProgramNames :
       LET name == Slice(IF Trim(typed) # <<>> THEN Trim(typed)
                         ELSE DefaultProgramName(Len(customPrograms) + 1),
                         ProgramNameChars)
       IN customPrograms' =
            Append(customPrograms,
                   [id |-> IdText(nextId), name |-> name, exercises |-> <<>>])
  /\ nextId' = nextId + 1
  /\ selectedCustomProgramId' = IdText(nextId)
  /\ selectedPlanId' = "custom"
  /\ pendingDeleteCustomProgramId' = NullId
  /\ screen' = "workout"
  /\ notice' = NoticeProgramCreated
  /\ UNCHANGED <<sessionByPlan, profile, timerCore>>
  /\ UNCHANGED workoutLogs
  /\ Track(FALSE)
  /\ Persist

\* deleteCustomProgram that would leave the selection as it is
deleteCustomProgramKeepsSelection ==
  /\ screen = "home"
  /\ Edit
  /\ \E i \in 1..Len(customPrograms) :
       LET programId == customPrograms[i].id
       IN /\ customPrograms' = DropById(customPrograms, programId)
          /\ UNCHANGED <<selectedCustomProgramId, selectedPlanId>>
  /\ pendingDeleteCustomProgramId' = NullId
  /\ notice' = NoticeProgramDeleted
  /\ UNCHANGED <<screen, sessionByPlan, profile, nextId, timerCore>>
  /\ UNCHANGED workoutLogs
  /\ Track(FALSE)
  /\ Persist

renameSelectedCustomProgram ==
  /\ screen = "workout" /\ selectedPlanId = "custom"
  /\ effectiveCustomProgramId # NullId
  /\ Edit
  /\ \E typed \in TypedProgramNames \cup {<<" ", "R", " ">>} :
       /\ Slice(Trim(typed), ProgramNameChars) # <<>>
       /\ customPrograms' =
            [i \in 1..Len(customPrograms) |->
               IF customPrograms[i].id = effectiveCustomProgramId
               THEN [customPrograms[i] EXCEPT
                       !.name = Slice(Trim(typed), ProgramNameChars)]
               ELSE customPrograms[i]]
  /\ UNCHANGED <<screen, selectedPlanId, selectedCustomProgramId,
                 pendingDeleteCustomProgramId, sessionByPlan, profile, nextId,
                 notice, timerCore>>
  /\ UNCHANGED workoutLogs
  /\ Track(FALSE)
  /\ Persist

deleteCustomProgram ==
  /\ screen = "home"
  /\ Edit
  /\ \E i \in 1..Len(customPrograms) :
       LET programId == customPrograms[i].id
       IN /\ customPrograms' = DropById(customPrograms, programId)
          /\ selectedCustomProgramId' =
               IF selectedCustomProgramId = programId THEN NullId
               ELSE selectedCustomProgramId
          /\ selectedPlanId' =
               IF selectedCustomProgramId = programId /\ selectedPlanId = "custom"
               THEN "upper" ELSE selectedPlanId
  /\ pendingDeleteCustomProgramId' = NullId
  /\ notice' = NoticeProgramDeleted
  /\ UNCHANGED <<screen, sessionByPlan, profile, nextId, timerCore>>
  /\ UNCHANGED workoutLogs
  /\ Track(FALSE)
  /\ Persist

deletePlanWorkout ==
  /\ screen = "home"
  /\ Edit
  /\ \E planId \in DayPlanIds \ {"custom"} :
       sessionByPlan' = [sessionByPlan EXCEPT ![planId] = <<>>]
  /\ notice' = NoticeWorkoutDeleted
  /\ UNCHANGED <<screen, selectedPlanId, selectedCustomProgramId,
                 pendingDeleteCustomProgramId, customPrograms, profile, nextId,
                 timerCore>>
  /\ UNCHANGED workoutLogs
  /\ Track(FALSE)
  /\ Persist

\* what every exercise handler leaves alone
exerciseFrame ==
  <<screen, selectedPlanId, selectedCustomProgramId, profile, timerCore>>

\* updateExercisesForPlan(planId, updater)
updateExercisesForPlan(planId, Updater(_)) ==
  /\ sessionByPlan' = SessionAfter(planId, Updater)
  /\ customPrograms' = ProgramsAfter(planId, Updater)

\* whether an updater given to updateExercisesForPlan(planId, ...) is run
UpdaterRuns(planId) == planId # "custom" \/ HasSelectedCustomProgram

\* addExerciseToPlan(planId, exerciseName, {allowDuplicate}).  The handler
\* reads the flag `added` right after handing the updater to the state setter;
\* React runs the updater at once only when the hook's queue is empty, so
\* with the exercise added the flag can be read either way (eager)
addExerciseToPlan(planId, exerciseName, allowDuplicate) ==
  IF planId = "custom" /\ effectiveCustomProgramId = NullId
  THEN /\ notice' = NoticeCreateProgramFirst
       /\ UNCHANGED <<sessionByPlan, customPrograms,
                      pendingDeleteCustomProgramId, nextId>>
  ELSE IF NormalizedName(exerciseName) = <<>>
  THEN UNCHANGED <<sessionByPlan, customPrograms,
                   pendingDeleteCustomProgramId, nextId, notice>>
  ELSE LET name == NormalizedName(exerciseName)
           Updater(prev) ==
             IF ~allowDuplicate /\ HasName(prev, name) THEN prev
             ELSE Append(prev, createExercise(nextId, name))
           adds == /\ UpdaterRuns(planId)
                   /\ allowDuplicate \/ ~HasName(activeExercises, name)
       IN /\ updateExercisesForPlan(planId, Updater)
          /\ nextId' = nextId + 2
          /\ \E eager \in BOOLEAN :
               IF adds /\ eager
               THEN /\ notice' = NoticeAdded
                    /\ pendingDeleteCustomProgramId' =
                         IF planId = "custom" THEN NullId
                         ELSE pendingDeleteCustomProgramId
               ELSE /\ notice' = NoticeAlreadyListed
                    /\ UNCHANGED pendingDeleteCustomProgramId

addManualCustomExercise ==
  /\ screen = "workout" /\ selectedPlanId = "custom"
  /\ HasSelectedCustomProgram
  /\ Edit
  /\ \E typed \in TypedExerciseNames :
       LET name == Slice(Trim(typed), ManualNameChars)
       IN IF name = <<>>
          THEN /\ notice' = NoticeEnterName
               /\ UNCHANGED <<sessionByPlan, customPrograms,
                              pendingDeleteCustomProgramId, nextId>>
          ELSE addExerciseToPlan("custom", name, TRUE)
  /\ UNCHANGED exerciseFrame
  /\ UNCHANGED workoutLogs
  /\ Track(FALSE)
  /\ Persist

addExerciseFromDropdown ==
  /\ screen = "workout" /\ selectedPlanId # "custom"
  /\ Edit
  /\ \E exerciseName \in OfferedNames :
       addExerciseToPlan(selectedPlanId, exerciseName, TRUE)
  /\ UNCHANGED exerciseFrame
  /\ UNCHANGED workoutLogs
  /\ Track(FALSE)
  /\ Persist

toggleExerciseInCustomProgram ==
  /\ screen = "workout" /\ selectedPlanId = "custom"
  /\ Edit
  /\ \E exerciseName \in OfferedNames :
       LET name == NormalizedName(exerciseName)
           OtherName(x) == toLowerCase(x.name) # toLowerCase(name)
           Updater(prev) ==
             IF ~HasName(prev, name) THEN Append(prev, createExercise(nextId, name))
             ELSE Filter(prev, OtherName)
           removes == UpdaterRuns("custom") /\ HasName(activeExercises, name)
       IN /\ updateExercisesForPlan("custom", Updater)
          /\ \E eager \in BOOLEAN :
               notice' = IF removes /\ eager THEN NoticeRemovedFromProgram
                         ELSE NoticeAdded
  /\ nextId' = nextId + 2
  /\ pendingDeleteCustomProgramId' = NullId
  /\ UNCHANGED exerciseFrame
  /\ UNCHANGED workoutLogs
  /\ Track(FALSE)
  /\ Persist

toggleExercise ==
  /\ screen = "workout"
  /\ \E i \in 1..Len(activeExercises) :
       LET exerciseId == activeExercises[i].id
           Updater(prev) ==
             [k \in 1..Len(prev) |->
                IF prev[k].id = exerciseId
                THEN [prev[k] EXCEPT !.expanded = ~prev[k].expanded]
                ELSE IF ~prev[k].expanded THEN prev[k]
                ELSE [prev[k] EXCEPT !.expanded = FALSE]]
       IN updateExercisesForPlan(selectedPlanId, Updater)
  /\ Edit
  /\ UNCHANGED <<pendingDeleteCustomProgramId, nextId, notice>>
  /\ UNCHANGED exerciseFrame
  /\ UNCHANGED workoutLogs
  /\ Track(FALSE)
  /\ Persist

updateExerciseNote ==
  /\ screen = "workout"
  /\ Edit
  /\ \E i \in 1..Len(activeExercises), note \in TypedNotes :
       LET exerciseId == activeExercises[i].id
           Noted(exercise) == [exercise EXCEPT !.note = Slice(note, NoteChars)]
           Updater(prev) == MapById(prev, exerciseId, Noted)
       IN /\ activeExercises[i].expanded
          /\ updateExercisesForPlan(selectedPlanId, Updater)
  /\ UNCHANGED <<pendingDeleteCustomProgramId, nextId, notice>>
  /\ UNCHANGED exerciseFrame
  /\ UNCHANGED workoutLogs
  /\ Track(FALSE)
  /\ Persist

removeExercise ==
  /\ screen = "workout"
  /\ Edit
  /\ \E i \in 1..Len(activeExercises) :
       LET exerciseId == activeExercises[i].id
           Updater(prev) == DropById(prev, exerciseId)
       IN updateExercisesForPlan(selectedPlanId, Updater)
  /\ notice' = NoticeExerciseRemoved
  /\ UNCHANGED <<pendingDeleteCustomProgramId, nextId>>
  /\ UNCHANGED exerciseFrame
  /\ UNCHANGED workoutLogs
  /\ Track(FALSE)
  /\ Persist

\* the set inputs a card shows: the third column is the speed for the cardio
\* plan and the drop-set button for the others
SetFieldsShown ==
  IF selectedPlanId = "cardio" THEN {"weight", "reps", "speed"}
  ELSE {"weight", "reps"}

\* digit cap of updateSetValue, for each of the three fields
SetValueDigits == 3

updateSetValue ==
  /\ screen = "workout"
  /\ Edit
  /\ \E i \in 1..Len(activeExercises) :
       \E j \in 1..Len(activeExercises[i].sets) :
         \E field \in SetFieldsShown, value \in TypedNumbers :
           LET exerciseId == activeExercises[i].id
               setId == activeExercises[i].sets[j].id
               sanitized == sanitizeNumber(JStr(value), SetValueDigits)
               Valued(setItem) == [setItem EXCEPT ![field] = sanitized]
               Edited(exercise) ==
                 [exercise EXCEPT !.sets = MapById(exercise.sets, setId, Valued)]
               Updater(prev) == MapById(prev, exerciseId, Edited)
           IN /\ activeExercises[i].expanded
              /\ updateExercisesForPlan(selectedPlanId, Updater)
  /\ UNCHANGED <<pendingDeleteCustomProgramId, nextId, notice>>
  /\ UNCHANGED exerciseFrame
  /\ UNCHANGED workoutLogs
  /\ Track(FALSE)
  /\ Persist

addSet ==
  /\ screen = "workout"
  /\ Edit
  /\ \E i \in 1..Len(activeExercises) :
       LET exerciseId == activeExercises[i].id
           Longer(exercise) ==
             [exercise EXCEPT
                !.sets = Append(exercise.sets,
                                createSet(nextId, <<>>, <<>>, <<>>, <<>>))]
           Updater(prev) == MapById(prev, exerciseId, Longer)
       IN /\ activeExercises[i].expanded
          /\ updateExercisesForPlan(selectedPlanId, Updater)
  /\ nextId' = nextId + 1
  /\ UNCHANGED <<pendingDeleteCustomProgramId, notice>>
  /\ UNCHANGED exerciseFrame
  /\ UNCHANGED workoutLogs
  /\ Track(FALSE)
  /\ Persist

RemoveSetFromUnguarded(exercise, setId) ==
  [exercise EXCEPT !.sets = DropById(exercise.sets, setId)]

\* removeSet: what its updater makes of the exercise with the given id
RemoveSetFrom(exercise, setId) ==
  IF Len(exercise.sets) <= 1 THEN exercise
  ELSE [exercise EXCEPT !.sets = DropById(exercise.sets, setId)]

\* the flag `removed` of removeSet is read like the flag of addExerciseToPlan
removeSet ==
  /\ screen = "workout"
  /\ Edit
  /\ \E i \in 1..Len(activeExercises) :
       \E j \in 1..Len(activeExercises[i].sets) :
         LET exerciseId == activeExercises[i].id
             setId == activeExercises[i].sets[j].id
             Shorter(exercise) == RemoveSetFrom(exercise, setId)
             Updater(prev) == MapById(prev, exerciseId, Shorter)
             removes == Len(activeExercises[i].sets) > 1
         IN /\ activeExercises[i].expanded
            /\ updateExercisesForPlan(selectedPlanId, Updater)
            /\ \E eager \in BOOLEAN :
                 notice' = IF removes /\ eager THEN notice
                           ELSE NoticeMinimumOneSet
  /\ UNCHANGED <<pendingDeleteCustomProgramId, nextId>>
  /\ UNCHANGED exerciseFrame
  /\ UNCHANGED workoutLogs
  /\ Track(FALSE)
  /\ Persist

\* addDropSet: what its updater makes of the set with the given id; the new
\* drop set copies the last drop set, or the set itself when there is none
WithDropSet(setItem, id) ==
  LET previous == setItem.dropSets[Len(setItem.dropSets)]
      weight == IF Len(setItem.dropSets) > 0 THEN previous.weight ELSE setItem.weight
      reps == IF Len(setItem.dropSets) > 0 THEN previous.reps ELSE setItem.reps
  IN [setItem EXCEPT !.dropSets = Append(setItem.dropSets,
                                         createDropSet(id, weight, reps))]

addDropSet ==
  /\ screen = "workout" /\ selectedPlanId # "cardio"
  /\ Edit
  /\ \E i \in 1..Len(activeExercises) :
       \E j \in 1..Len(activeExercises[i].sets) :
         LET exerciseId == activeExercises[i].id
             setId == activeExercises[i].sets[j].id
             Dropping(setItem) == WithDropSet(setItem, nextId)
             Edited(exercise) ==
               [exercise EXCEPT !.sets = MapById(exercise.sets, setId, Dropping)]
             Updater(prev) == MapById(prev, exerciseId, Edited)
         IN /\ activeExercises[i].expanded
            /\ updateExercisesForPlan(selectedPlanId, Updater)
  /\ nextId' = nextId + 1
  /\ UNCHANGED <<pendingDeleteCustomProgramId, notice>>
  /\ UNCHANGED exerciseFrame
  /\ UNCHANGED workoutLogs
  /\ Track(FALSE)
  /\ Persist

\* digit cap of updateDropSetValue for a field
DropValueDigits(field) ==
  IF field = "weight" THEN DropWeightDigits ELSE DropRepsDigits

updateDropSetValue ==
  /\ screen = "workout" /\ selectedPlanId # "cardio"
  /\ Edit
  /\ \E i \in 1..Len(activeExercises) :
       \E j \in 1..Len(activeExercises[i].sets) :
         \E k \in 1..Len(activeExercises[i].sets[j].dropSets) :
           \E field \in {"weight", "reps"}, value \in TypedNumbers :
             LET exerciseId == activeExercises[i].id
                 setId == activeExercises[i].sets[j].id
                 dropSetId == activeExercises[i].sets[j].dropSets[k].id
                 sanitized == sanitizeNumber(JStr(value), DropValueDigits(field))
                 Valued(dropSet) == [dropSet EXCEPT ![field] = sanitized]
                 Dropping(setItem) ==
                   [setItem EXCEPT
                      !.dropSets = MapById(setItem.dropSets, dropSetId, Valued)]
                 Edited(exercise) ==
                   [exercise EXCEPT !.sets = MapById(exercise.sets, setId, Dropping)]
                 Updater(prev) == MapById(prev, exerciseId, Edited)
             IN /\ activeExercises[i].expanded
                /\ updateExercisesForPlan(selectedPlanId, Updater)
  /\ UNCHANGED <<pendingDeleteCustomProgramId, nextId, notice>>
  /\ UNCHANGED exerciseFrame
  /\ UNCHANGED workoutLogs
  /\ Track(FALSE)
  /\ Persist

removeDropSet ==
  /\ screen = "workout" /\ selectedPlanId # "cardio"
  /\ Edit
  /\ \E i \in 1..Len(activeExercises) :
       \E j \in 1..Len(activeExercises[i].sets) :
         \E k \in 1..Len(activeExercises[i].sets[j].dropSets) :
           LET exerciseId == activeExercises[i].id
               setId == activeExercises[i].sets[j].id
               dropSetId == activeExercises[i].sets[j].dropSets[k].id
               Dropping(setItem) ==
                 [setItem EXCEPT !.dropSets = DropById(setItem.dropSets, dropSetId)]
               Edited(exercise) ==
                 [exercise EXCEPT !.sets = MapById(exercise.sets, setId, Dropping)]
               Updater(prev) == MapById(prev, exerciseId, Edited)
           IN /\ activeExercises[i].expanded
              /\ updateExercisesForPlan(selectedPlanId, Updater)
  /\ UNCHANGED <<pendingDeleteCustomProgramId, nextId, notice>>
  /\ UNCHANGED exerciseFrame
  /\ UNCHANGED workoutLogs
  /\ Track(FALSE)
  /\ Persist

clearCurrentPlan ==
  /\ screen = "workout"
  /\ Edit
  /\ pendingDeleteCustomProgramId' =
       IF /\ selectedPlanId = "custom"
          /\ HasSelectedCustomProgram
          /\ Len(activeExercises) > 0
       THEN selectedCustomProgram.id ELSE NullId
  /\ LET Updater(prev) == <<>>
     IN updateExercisesForPlan(selectedPlanId, Updater)
  /\ notice' = NoticeCleared
  /\ UNCHANGED nextId
  /\ UNCHANGED exerciseFrame
  /\ UNCHANGED workoutLogs
  /\ Track(TRUE)
  /\ Persist

\* the updater of saveWorkoutSetup: every expanded card collapses
Collapsed(prev) ==
  [k \in 1..Len(prev) |->
     IF prev[k].expanded THEN [prev[k] EXCEPT !.expanded = FALSE] ELSE prev[k]]

saveWorkoutSetup ==
  /\ screen = "workout"
  /\ sessionByPlan' = SessionAfter(selectedPlanId, Collapsed)
  /\ IF /\ selectedPlanId = "custom"
        /\ HasSelectedCustomProgram
        /\ pendingDeleteCustomProgramId = effectiveCustomProgramId
        /\ Len(activeExercises) = 0
     THEN /\ customPrograms' = DropById(ProgramsAfter(selectedPlanId, Collapsed),
                                        effectiveCustomProgramId)
          /\ selectedCustomProgramId' = NullId
          /\ selectedPlanId' = "upper"
          /\ screen' = "home"
          /\ notice' = NoticeEmptyProgramDeleted
     ELSE /\ customPrograms' = ProgramsAfter(selectedPlanId, Collapsed)
          /\ notice' = NoticeSaved
          /\ UNCHANGED <<selectedCustomProgramId, selectedPlanId, screen>>
  /\ pendingDeleteCustomProgramId' = NullId
  /\ closeWorkoutDrawers
  /\ Edit
  /\ UNCHANGED <<profile, nextId>>
  /\ UNCHANGED workoutLogs
  /\ Track(FALSE)
  /\ Persist

updateProfileField ==
  /\ screen = "home"
  /\ Edit
  /\ \E field \in TypedProfileFields, value \in TypedNumbers :
       profile' = [profile EXCEPT ![field] = sanitizeNumber(JStr(value), ProfileDigits)]
  /\ UNCHANGED <<screen, selectedPlanId, selectedCustomProgramId,
                 pendingDeleteCustomProgramId, sessionByPlan, customPrograms,
                 nextId, notice, timerCore>>
  /\ UNCHANGED workoutLogs
  /\ Track(FALSE)
  /\ Persist

\* addMeasurement that keeps every earlier entry
addMeasurementNoCap ==
  /\ screen = "home"
  /\ Edit
  /\ IF \A f \in ProfileFields : profile[f] = <<>>
     THEN /\ notice' = NoticeFillMeasurement
          /\ UNCHANGED <<profile, nextId>>
     ELSE /\ profile' =
               [profile EXCEPT
                  !.measurements =
                     <<[id |-> nextId, date |-> DateToday,
                        height |-> profile.height, weight |-> profile.weight,
                        chest |-> profile.chest, waist |-> profile.waist,
                        glutes |-> profile.glutes, thighs |-> profile.thighs,
                        belly |-> profile.belly]>> \o profile.measurements]
          /\ nextId' = nextId + 1
          /\ notice' = NoticeMeasurementSaved
  /\ UNCHANGED <<screen, selectedPlanId, selectedCustomProgramId,
                 pendingDeleteCustomProgramId, sessionByPlan, customPrograms,
                 timerCore>>
  /\ UNCHANGED workoutLogs
  /\ Track(FALSE)
  /\ Persist

addMeasurement ==
  /\ screen = "home"
  /\ Edit
  /\ IF \A f \in ProfileFields : profile[f] = <<>>
     THEN /\ notice' = NoticeFillMeasurement
          /\ UNCHANGED <<profile, nextId>>
     ELSE /\ profile' =
               [profile EXCEPT
                  !.measurements =
                     Slice(<<[id |-> nextId, date |-> DateToday,
                              height |-> profile.height, weight |-> profile.weight,
                              chest |-> profile.chest, waist |-> profile.waist,
                              glutes |-> profile.glutes, thighs |-> profile.thighs,
                              belly |-> profile.belly]>> \o profile.measurements,
                           MeasurementCap)]
          /\ nextId' = nextId + 1
          /\ notice' = NoticeMeasurementSaved
  /\ UNCHANGED <<screen, selectedPlanId, selectedCustomProgramId,
                 pendingDeleteCustomProgramId, sessionByPlan, customPrograms,
                 timerCore>>
  /\ UNCHANGED workoutLogs
  /\ Track(FALSE)
  /\ Persist

\* the rows whose delete button is pressed: the first two and the last
PressedRows(n) == {i \in 1..n : i <= 2 \/ i = n}

removeMeasurement ==
  /\ screen = "home"
  /\ Edit
  /\ \E i \in PressedRows(Len(profile.measurements)) :
       profile' = [profile EXCEPT
                     !.measurements = DropById(profile.measurements,
                                               profile.measurements[i].id)]
  /\ UNCHANGED <<screen, selectedPlanId, selectedCustomProgramId,
                 pendingDeleteCustomProgramId, sessionByPlan, customPrograms,
                 nextId, notice, timerCore>>
  /\ UNCHANGED workoutLogs
  /\ Track(FALSE)
  /\ Persist

Next ==
  \/ openWorkout
  \/ goHome
  \/ openProgress
  \/ createCustomProgram
  \/ renameSelectedCustomProgram
  \/ deleteCustomProgram
  \/ deletePlanWorkout
  \/ addManualCustomExercise
  \/ addExerciseFromDropdown
  \/ toggleExerciseInCustomProgram
  \/ toggleExercise
  \/ updateExerciseNote
  \/ removeExercise
  \/ updateSetValue
  \/ addSet
  \/ removeSet
  \/ addDropSet
  \/ updateDropSetValue
  \/ removeDropSet
  \/ clearCurrentPlan
  \/ saveWorkoutSetup
  \/ updateProfileField
  \/ addMeasurement
  \/ removeMeasurement

Spec == Init /\ [][Next]_vars

(***************************************************************************)
(* SpecPrograms: the handlers of the custom programs, over persisted       *)
(* program lists, in longer runs                                           *)
(***************************************************************************)
\* a persisted program list in which two programs carry the same id
RepeatedIdProgramsText ==
  JsonText(JArr(<<JObj([id |-> JStr(<<"p", "1">>), name |-> JStr(<<"G", "o">>),
                        exercises |-> JArr(<<RawItemPlain>>)]),
                  JObj([id |-> JStr(<<"p", "1">>), name |-> JStr(<<"Q">>),
                        exercises |-> JArr(<<RawItemBare>>)])>>))

StartProgramTexts == {NoItem, StartProgramsText, RepeatedIdProgramsText}

InitPrograms ==
  /\ SanIdle
  /\ CalIdle
  /\ LoadIdle
  /\ TimerIdle
  /\ V4Idle
  /\ screen = "home"
  /\ selectedPlanId = "upper"
  /\ selectedCustomProgramId = NullId
  /\ pendingDeleteCustomProgramId = NullId
  /\ steps = 0
  /\ stepBudget = MaxProgramSteps
  /\ markClean = FALSE
  /\ workoutLogs = <<>>
  /\ storedLogs = JsonText(LogsJson(<<>>))
  /\ \E text \in StartProgramTexts :
       LET session == loadSessionByPlan(NoItem, FirstId)
           loaded == loadCustomPrograms(text, FirstId + SessionIds(session))
           state == loadProfileState(NoItem, loaded.next)
       IN /\ sessionByPlan = session
          /\ customPrograms = loaded.programs
          /\ profile = state
          /\ nextId = loaded.next
          /\ storage = Persisted(session, loaded.programs, state)

NextPrograms ==
  \/ openWorkout
  \/ goHome
  \/ createCustomProgram
  \/ renameSelectedCustomProgram
  \/ deleteCustomProgram
  \/ addManualCustomExercise
  \/ toggleExerciseInCustomProgram
  \/ removeExercise
  \/ clearCurrentPlan
  \/ saveWorkoutSetup

SpecPrograms == InitPrograms /\ [][NextPrograms]_vars

(***************************************************************************)
(* SpecProfile: the profile card of the home screen over persisted         *)
(* measurement histories around the cap                                    *)
(***************************************************************************)
\* the numbers of valid entries the persisted histories list
HistoryLengths == {MeasurementCap - 1, MeasurementCap, MeasurementCap + 1}

\* entry i of the persisted history of n entries, dated "n.i"
RawHistoryEntry(n, i) ==
  JObj([date |-> JStr(StringOfNat(n) \o <<".">> \o StringOfNat(i)),
        weight |-> JStr(<<"7", "0">>)])

\* a persisted profile whose history lists n valid entries behind one that has
\* no date
HistoryText(n) ==
  JsonText(JObj([height |-> JStr(<<"1", "8", "0">>),
                 measurements |->
                   JArr(<<JObj([weight |-> JStr(<<"7", "1">>)])>>
                        \o [i \in 1..n |-> RawHistoryEntry(n, i)])]))

InitProfile ==
  /\ SanIdle
  /\ CalIdle
  /\ LoadIdle
  /\ TimerIdle
  /\ V4Idle
  /\ screen = "home"
  /\ selectedPlanId = "upper"
  /\ selectedCustomProgramId = NullId
  /\ pendingDeleteCustomProgramId = NullId
  /\ steps = 0
  /\ \E n \in HistoryLengths :
       LET session == loadSessionByPlan(NoItem, FirstId)
           loaded == loadCustomPrograms(NoItem, FirstId + SessionIds(session))
           state == loadProfileState(HistoryText(n), loaded.next)
       IN /\ sessionByPlan = session
          /\ customPrograms = loaded.programs
          /\ profile = state
          /\ nextId = loaded.next + Len(state.measurements)
          /\ storage = Persisted(session, loaded.programs, state)
          /\ workoutLogs = <<>>
          /\ storedLogs = JsonText(LogsJson(<<>>))
  /\ markClean = FALSE
  /\ stepBudget = MaxSteps

NextProfile ==
  \/ updateProfileField
  \/ addMeasurement
  \/ removeMeasurement

SpecProfile == InitProfile /\ [][NextProfile]_vars

(***************************************************************************)
(* SpecV4: the tabbed revision (src/unnamed/part_001) with its store, its  *)
(* persist effect and its rest countdown                                   *)
(***************************************************************************)
NoticeSetAdded == "set added, rest 01:30"

NoticeAlreadyInDay == "already in the current day"

MaxRestSecondsV4 == 600

RestStepV4 == 30

NameOther == <<"N", "w">>

\* the texts the revision finds under its storage key when it is mounted
StartTextsV4 ==
  {NoItem,
   JsonText(JObj([upper |-> JArr(<<RawItemPlain>>)])),
   JsonText(JObj([upper |-> JArr(<<RawItemPlain>>),
                  lower |-> JArr(<<>>),
                  cardio |-> JArr(<<RawItemBare>>)]))}

\* the option the select of a plan holds when "add" is pressed
OfferedNamesV4(planId) == {DefaultListsV4[planId][1].name, NameOther}

InitV4 ==
  /\ SanIdle
  /\ CalIdle
  /\ LoadIdle
  /\ TimerIdle
  /\ StoreIdle
  /\ \E text \in StartTextsV4 :
       /\ sessionByPlanV4 = loadSessionByPlanV4(text, FirstId)
       /\ storageV4 = PersistedV4(loadSessionByPlanV4(text, FirstId))
       /\ nextIdV4 = FirstId + CountIdsV4(loadSessionByPlanV4(text, FirstId))
  /\ selectedPlanIdV4 = "upper"
  /\ restSecondsV4 = <<>>
  /\ tickScheduledV4 = FALSE
  /\ noticeV4 = NoNotice
  /\ stepsV4 = 0
  /\ lastOpV4 = "none"

activeExercisesV4 == sessionByPlanV4[selectedPlanIdV4]

\* the effects that follow the render of a handler call: persist and countdown
RenderV4 ==
  /\ storageV4' = PersistedV4(sessionByPlanV4')
  /\ tickScheduledV4' = RestEffect(restSecondsV4, restSecondsV4', tickScheduledV4)
  /\ UNCHANGED <<sanVars, calVars, loadVars, timerVars, storeVars>>

\* one counted handler call, followed by the effects of its render
StepV4 ==
  /\ stepsV4 < MaxStepsV4
  /\ stepsV4' = stepsV4 + 1
  /\ RenderV4

updateExercisesForPlanV4(planId, Updater(_)) ==
  sessionByPlanV4' = [sessionByPlanV4 EXCEPT ![planId] = Updater(sessionByPlanV4[planId])]

selectPlanV4 ==
  /\ \E planId \in DayPlanIdsV4 : selectedPlanIdV4' = planId
  /\ UNCHANGED <<sessionByPlanV4, restSecondsV4, noticeV4, nextIdV4>>
  /\ lastOpV4' = "selectPlan"
  /\ StepV4

toggleExerciseV4 ==
  /\ \E i \in 1..Len(activeExercisesV4) :
       LET exerciseId == activeExercisesV4[i].id
           Toggle(exercise) == [exercise EXCEPT !.expanded = ~exercise.expanded]
           Updater(prev) == MapById(prev, exerciseId, Toggle)
       IN updateExercisesForPlanV4(selectedPlanIdV4, Updater)
  /\ UNCHANGED <<selectedPlanIdV4, restSecondsV4, noticeV4, nextIdV4>>
  /\ lastOpV4' = "toggleExercise"
  /\ StepV4

updateSetValueV4 ==
  /\ \E i \in 1..Len(activeExercisesV4) :
       /\ activeExercisesV4[i].expanded
       /\ \E j \in 1..Len(activeExercisesV4[i].sets), field \in {"weight", "reps"},
             value \in TypedNumbers :
            LET exerciseId == activeExercisesV4[i].id
                setId == activeExercisesV4[i].sets[j].id
                sanitized == sanitizeNumber(JStr(value),
                               IF field = "weight" THEN WeightDigits ELSE RepsDigitsV4)
                SetField(setItem) == [setItem EXCEPT ![field] = sanitized]
                InExercise(exercise) ==
                  [exercise EXCEPT !.sets = MapById(exercise.sets, setId, SetField)]
                Updater(prev) == MapById(prev, exerciseId, InExercise)
            IN updateExercisesForPlanV4(selectedPlanIdV4, Updater)
  /\ UNCHANGED <<selectedPlanIdV4, restSecondsV4, noticeV4, nextIdV4>>
  /\ lastOpV4' = "updateSetValue"
  /\ StepV4

addSetV4 ==
  /\ \E i \in 1..Len(activeExercisesV4) :
       /\ activeExercisesV4[i].expanded
       /\ LET exerciseId == activeExercisesV4[i].id
              WithSet(exercise) ==
                LET lastSet == exercise.sets[Len(exercise.sets)]
                    copied == IF Len(exercise.sets) > 0
                              THEN createSetV4(nextIdV4, lastSet.weight, lastSet.reps)
                              ELSE createSetV4(nextIdV4, <<>>, <<>>)
                IN [exercise EXCEPT !.expanded = TRUE,
                                    !.sets = Append(exercise.sets, copied)]
              Updater(prev) == MapById(prev, exerciseId, WithSet)
          IN updateExercisesForPlanV4(selectedPlanIdV4, Updater)
  /\ nextIdV4' = nextIdV4 + 1
  /\ restSecondsV4' = <<DEFAULT_REST_SECONDS>>
  /\ noticeV4' = NoticeSetAdded
  /\ UNCHANGED selectedPlanIdV4
  /\ lastOpV4' = "addSet"
  /\ StepV4

removeExerciseV4 ==
  /\ \E i \in 1..Len(activeExercisesV4) :
       /\ activeExercisesV4[i].expanded
       /\ LET exerciseId == activeExercisesV4[i].id
              Updater(prev) == DropById(prev, exerciseId)
          IN updateExercisesForPlanV4(selectedPlanIdV4, Updater)
  /\ noticeV4' = NoticeExerciseRemoved
  /\ UNCHANGED <<selectedPlanIdV4, restSecondsV4, nextIdV4>>
  /\ lastOpV4' = "removeExercise"
  /\ StepV4

\* `duplicate` is set inside the state updater and read right after the setter:
\* the updater has run by then only when React computes the state eagerly
addExerciseFromDropdownV4 ==
  /\ \E exerciseName \in OfferedNamesV4(selectedPlanIdV4), eager \in BOOLEAN :
       LET Same(exercise) == toLowerCase(exercise.name) = toLowerCase(exerciseName)
           exists == \E i \in 1..Len(activeExercisesV4) : Same(activeExercisesV4[i])
           Updater(prev) ==
             IF exists
             THEN [i \in 1..Len(prev) |->
                     IF Same(prev[i]) THEN [prev[i] EXCEPT !.expanded = TRUE]
                     ELSE prev[i]]
             ELSE Append(prev,
                         createExerciseV4(nextIdV4 + 1, exerciseName,
                                          <<createSetV4(nextIdV4, <<>>, <<>>)>>))
       IN /\ updateExercisesForPlanV4(selectedPlanIdV4, Updater)
          /\ nextIdV4' = IF exists THEN nextIdV4 ELSE nextIdV4 + 2
          /\ noticeV4' = IF exists /\ eager THEN NoticeAlreadyInDay ELSE NoticeAdded
  /\ UNCHANGED <<selectedPlanIdV4, restSecondsV4>>
  /\ lastOpV4' = "addExerciseFromDropdown"
  /\ StepV4

\* the +30 button without the cap
addRestTimeNoCapV4 ==
  /\ restSecondsV4 # <<>>
  /\ restSecondsV4' = <<restSecondsV4[1] + RestStepV4>>
  /\ UNCHANGED <<selectedPlanIdV4, sessionByPlanV4, noticeV4, nextIdV4>>
  /\ lastOpV4' = "addRestTime"
  /\ UNCHANGED stepsV4
  /\ RenderV4

\* the +30 button of the rest banner (rendered during a countdown)
addRestTimeV4 ==
  /\ restSecondsV4 # <<>>
  /\ restSecondsV4' = <<Min(restSecondsV4[1] + RestStepV4, MaxRestSecondsV4)>>
  /\ UNCHANGED <<selectedPlanIdV4, sessionByPlanV4, noticeV4, nextIdV4>>
  /\ lastOpV4' = "addRestTime"
  /\ UNCHANGED stepsV4
  /\ RenderV4

skipRestV4 ==
  /\ restSecondsV4 # <<>>
  /\ restSecondsV4' = <<>>
  /\ UNCHANGED <<selectedPlanIdV4, sessionByPlanV4, noticeV4, nextIdV4>>
  /\ lastOpV4' = "skipRest"
  /\ UNCHANGED stepsV4
  /\ RenderV4

TickV4 ==
  /\ tickScheduledV4
  /\ restSecondsV4' = CountdownStep(restSecondsV4)
  /\ noticeV4' = IF CountdownExpires(restSecondsV4) THEN NoticeRestDone ELSE noticeV4
  /\ UNCHANGED <<selectedPlanIdV4, sessionByPlanV4, nextIdV4>>
  /\ lastOpV4' = "tick"
  /\ stepsV4 < MaxStepsV4
  /\ stepsV4' = stepsV4 + 1
  /\ storageV4' = PersistedV4(sessionByPlanV4')
  /\ tickScheduledV4' = RestEffect(restSecondsV4, restSecondsV4', FALSE)
  /\ UNCHANGED <<sanVars, calVars, loadVars, timerVars, storeVars>>

\* the 2000 ms timeout of the notice effect fires
clearNoticeV4 ==
  /\ noticeV4 # NoNotice
  /\ noticeV4' = NoNotice
  /\ UNCHANGED <<selectedPlanIdV4, sessionByPlanV4, restSecondsV4, nextIdV4>>
  /\ lastOpV4' = "clearNotice"
  /\ StepV4

NextV4 ==
  \/ selectPlanV4
  \/ toggleExerciseV4
  \/ updateSetValueV4
  \/ addSetV4
  \/ removeExerciseV4
  \/ addExerciseFromDropdownV4
  \/ addRestTimeV4
  \/ skipRestV4
  \/ TickV4
  \/ clearNoticeV4

SpecV4 == InitV4 /\ [][NextV4]_vars


(***************************************************************************)
(* Claims about the session store                                          *)
(***************************************************************************)
\* every list of exercises the store holds: the five plan lists and the list
\* of every custom program
AllExerciseLists ==
  {sessionByPlan[p] : p \in DayPlanIds}
    \cup {customPrograms[i].exercises : i \in 1..Len(customPrograms)}

\* C1: in every reachable state of the session store, whatever text it was
\* loaded from and whichever handlers ran, every exercise of every plan list
\* and of every custom program has at least one set.
C1_EveryExerciseHasASet ==
  \A list \in AllExerciseLists :
    \A i \in 1..Len(list) : Len(list[i].sets) >= 1

\* removeSet was pressed on the only set of an expanded exercise: the set is
\* still there and the notice says that one set is the minimum
C1_Witness ==
  /\ screen = "workout"
  /\ notice = NoticeMinimumOneSet
  /\ steps >= 2
  /\ \E i \in 1..Len(activeExercises) :
       /\ activeExercises[i].expanded
       /\ Len(activeExercises[i].sets) = 1

\* a string of decimal digits no longer than cap
IsDigitText(text, cap) ==
  /\ Len(text) <= cap
  /\ \A k \in 1..Len(text) : text[k] \in Digits

\* C2: in every reachable state every stored numeric field is a string of
\* decimal digits no longer than its cap: weight, reps and speed of a set
\* (3), weight (3) and reps (2) of a drop set, the seven profile fields (3)
\* and the seven fields of every measurement (3), whether it was typed,
\* copied forward or loaded.
C2_NumericFieldsAreCappedDigits ==
  /\ \A list \in AllExerciseLists :
       \A i \in 1..Len(list) :
         \A j \in 1..Len(list[i].sets) :
           LET setItem == list[i].sets[j]
           IN /\ IsDigitText(setItem.weight, 3)
              /\ IsDigitText(setItem.reps, 3)
              /\ IsDigitText(setItem.speed, 3)
              /\ \A d \in 1..Len(setItem.dropSets) :
                   /\ IsDigitText(setItem.dropSets[d].weight, 3)
                   /\ IsDigitText(setItem.dropSets[d].reps, 2)
  /\ \A f \in ProfileFields :
       /\ IsDigitText(profile[f], 3)
       /\ \A m \in 1..Len(profile.measurements) :
            IsDigitText(profile.measurements[m][f], 3)

\* a set holds the weight "50" and the reps "123" that updateSetValue kept of
\* the typed "12a34"; addDropSet then copied both forward into a new drop
\* set, whose reps are cut to "12"
C2_Witness ==
  /\ steps = MaxSteps
  /\ \E i \in 1..Len(activeExercises) :
       \E j \in 1..Len(activeExercises[i].sets) :
         LET setItem == activeExercises[i].sets[j]
         IN /\ setItem.weight = <<"5", "0">>
            /\ setItem.reps = <<"1", "2", "3">>
            /\ Len(setItem.dropSets) = 1
            /\ setItem.dropSets[1].id = nextId - 1
            /\ setItem.dropSets[1].weight = <<"5", "0">>
            /\ setItem.dropSets[1].reps = <<"1", "2">>

\* a list of the tabbed revision without its ids
WithoutIdsV4(list) ==
  [i \in 1..Len(list) |->
     [name |-> list[i].name,
      expanded |-> list[i].expanded,
      sets |-> [j \in 1..Len(list[i].sets) |->
                  [weight |-> list[i].sets[j].weight,
                   reps |-> list[i].sets[j].reps]]]]

\* C6, as stated: loading the text the persist effect wrote for the present
\* state gives that state back (compared without the ids, which every load
\* draws afresh), a plan list the user has emptied included.
C6_Original ==
  \A p \in DayPlanIdsV4 :
    WithoutIdsV4(loadSessionByPlanV4(storageV4, nextIdV4)[p])
      = WithoutIdsV4(sessionByPlanV4[p])


(***************************************************************************)
(* Claims about the sanitizer and the loaders                              *)
(***************************************************************************)
\* the first n digit characters of s, in their order in s
FirstDigits(s, n) ==
  LET idx == {i \in 1..Len(s) : s[i] \in Digits}
      Rank(i) == Cardinality({j \in idx : j <= i})
      m == Min(n, Cardinality(idx))
  IN [k \in 1..m |-> s[CHOOSE i \in idx : Rank(i) = k]]

\* C3: for every input string s and every cap n >= 0, sanitizeNumber(s, n)
\* holds only the characters 0-9, is at most n long, and is the first n digit
\* characters of s in their original order.
C3_SanitizeContract ==
  sanResult # Pending =>
    /\ \A i \in 1..Len(sanResult) : sanResult[i] \in Digits
    /\ Len(sanResult) <= sanCap
    /\ sanResult = FirstDigits(JSString(Coalesce(sanValue, JStr(<<>>))), sanCap)

\* C3 happens: a string that starts with a non-digit and holds more digits
\* than the cap has been cut to the cap
C3_Witness ==
  /\ sanResult # Pending
  /\ sanValue.t = "string"
  /\ sanCap >= 2
  /\ Len(sanValue.v) > 0
  /\ sanValue.v[1] \notin Digits
  /\ Len(StripNonDigits(sanValue.v)) > sanCap
  /\ Len(sanResult) = sanCap

\* an exercise of the full application as the claims call well-formed
WellFormedExercise(exercise) ==
  /\ DOMAIN exercise = {"id", "name", "note", "expanded", "sets"}
  /\ Len(exercise.name) > 0
  /\ \A i \in 1..Len(exercise.note) : exercise.note[i] \in STRING
  /\ exercise.expanded \in BOOLEAN
  /\ Len(exercise.sets) >= 1

\* what blob holds is a JSON object
BlobIsObject == blob.t = "json" /\ blob.v.t = "object"

\* C4: for every persisted text, loadSessionByPlan returns a value with exactly
\* the known plan keys, each mapped to a list in which every exercise has a
\* non-empty name, a string note, a boolean expanded flag and at least one set
\* (an exception inside the loader ends in the default state, not at the caller).
C4_LoadTotalWellFormed ==
  "LoadApp" \in loaders =>
    /\ DOMAIN loadedApp = DayPlanIds
    /\ \A p \in DayPlanIds :
         \A i \in 1..Len(loadedApp[p]) : WellFormedExercise(loadedApp[p][i])

\* C4 happens: a plan array of wrong-typed elements (null, then an object that
\* has a name and no sets) has been loaded into one exercise with one set
C4_Witness ==
  /\ "LoadApp" \in loaders
  /\ BlobIsObject
  /\ \E p \in DayPlanIds :
       /\ Get(blob.v, p).t = "array"
       /\ Len(Get(blob.v, p).v) = 2
       /\ Get(blob.v, p).v[1] = JNull
       /\ Get(blob.v, p).v[2].t = "object"
       /\ Get(Get(blob.v, p).v[2], "sets") = Undef
       /\ Len(loadedApp[p]) = 1
       /\ Len(loadedApp[p][1].sets) = 1

\* the text is absent, empty or unparseable
BlobUnreadable == blob.t \in {"absent", "empty", "invalid"}

\* C5 as stated: whenever the text is unreadable or parses to something that is
\* not a plain object, each load operation returns its full default state.
C5_Original ==
  (BlobUnreadable \/ ~BlobIsObject) =>
    /\ "LoadApp" \in loaders => loadedApp = buildDefaultSessionByPlan
    /\ "LoadV4" \in loaders => loadedV4 = buildDefaultSessionByPlanV4(FirstId)
    /\ "LoadV3" \in loaders => loadedV3 = buildDefaultSessionV3(FirstId)

\* C5 as amended: loadSessionByPlan (full application and tabbed revision)
\* returns its full default state whenever the text is unreadable or parses to
\* something that is not a plain object; loadSession of the single-list revision,
\* whose persisted shape is an array, returns its full default state whenever
\* the text is unreadable or parses to something that is not an array.
C5_DefaultOnWrongShape ==
  /\ (BlobUnreadable \/ ~BlobIsObject) =>
       /\ "LoadApp" \in loaders => loadedApp = buildDefaultSessionByPlan
       /\ "LoadV4" \in loaders => loadedV4 = buildDefaultSessionByPlanV4(FirstId)
  /\ (BlobUnreadable \/ blob.v.t # "array") =>
       ("LoadV3" \in loaders => loadedV3 = buildDefaultSessionV3(FirstId))

\* C5 happens: all three loaders have read a text that is a JSON array of one
\* exercise; the two loadSessionByPlan answered with their defaults
C5_Witness ==
  /\ loaders = {"LoadApp", "LoadV4", "LoadV3"}
  /\ blob = JsonText(JArr(<<RawItemPlain>>))
  /\ loadedV4 = buildDefaultSessionByPlanV4(FirstId)
  /\ loadedApp = buildDefaultSessionByPlan

\* a plain object with a string name that is non-empty after trimming
QualifiesAsExercise(item) ==
  /\ item.t = "object"
  /\ Get(item, "name").t = "string"
  /\ Trim(Get(item, "name").v) # <<>>

\* the qualifying elements of a persisted value, in their order
Qualifying(input) ==
  IF input.t = "array" THEN SelectSeq(input.v, QualifiesAsExercise) ELSE <<>>

NamesOf(list) == [i \in 1..Len(list) |-> list[i].name]

\* the names of the qualifying elements, trimmed and cut to cap characters
QualifyingNames(input, cap) ==
  LET kept == Qualifying(input)
  IN [i \in 1..Len(kept) |-> Slice(Trim(Get(kept[i], "name").v), cap)]

\* the full application keeps exactly the qualifying elements of every plan
\* array, under their catalog names
C18_DroppedInApp ==
  ("LoadApp" \in loaders /\ BlobIsObject
     /\ \A p \in DayPlanIds : ~normalizeExercisesThrows(Get(blob.v, p))) =>
    \A p \in DayPlanIds :
      LET names == QualifyingNames(Get(blob.v, p), NameChars)
      IN NamesOf(loadedApp[p]) = [i \in 1..Len(names) |-> CanonicalName(names[i])]

\* the tabbed revision keeps exactly the qualifying elements of every plan
\* array that has one
C18_DroppedInV4 ==
  ("LoadV4" \in loaders /\ BlobIsObject
     /\ \A p \in DayPlanIdsV4 : ~normalizeExercisesThrowsV4(Get(blob.v, p))) =>
    \A p \in DayPlanIdsV4 :
      Qualifying(Get(blob.v, p)) # <<>> =>
        NamesOf(loadedV4[p]) = QualifyingNames(Get(blob.v, p), NameCharsV4)

\* the single-list revision would keep exactly the qualifying elements of the
\* persisted array, and answer with its default when there is none
C18_DroppedInV3 ==
  ("LoadV3" \in loaders /\ blob.t = "json" /\ blob.v.t = "array"
     /\ ~loadSessionThrowsV3(blob.v)) =>
    IF Qualifying(blob.v) = <<>> THEN loadedV3 = buildDefaultSessionV3(FirstId)
    ELSE NamesOf(loadedV3) = QualifyingNames(blob.v, NameCharsV4)

\* C18, as stated: normalization of a persisted array returns exactly the
\* elements that are plain objects with a string name non-empty after
\* trimming, in their order; every other element is dropped and none is
\* replaced by a placeholder exercise, in each of the three loaders.
C18_Original ==
  /\ C18_DroppedInApp
  /\ C18_DroppedInV4
  /\ C18_DroppedInV3

\* the full application loads every known key, and as an empty list a key
\* whose persisted value has no qualifying element
C19_KeysOfApp ==
  "LoadApp" \in loaders =>
    /\ DOMAIN loadedApp = DayPlanIds
    /\ (BlobIsObject
          /\ \A p \in DayPlanIds : ~normalizeExercisesThrows(Get(blob.v, p))) =>
         \A p \in DayPlanIds :
           Qualifying(Get(blob.v, p)) = <<>> => loadedApp[p] = <<>>

\* the same of the tabbed revision
C19_KeysOfV4 ==
  "LoadV4" \in loaders =>
    /\ DOMAIN loadedV4 = DayPlanIdsV4
    /\ (BlobIsObject
          /\ \A p \in DayPlanIdsV4 : ~normalizeExercisesThrowsV4(Get(blob.v, p))) =>
         \A p \in DayPlanIdsV4 :
           Qualifying(Get(blob.v, p)) = <<>> => loadedV4[p] = <<>>

\* C19, as stated: the loaded session has exactly the known plan keys, and a
\* known key that is missing, not an array or an array without a valid
\* element in the persisted object loads as an empty list.
C19_Original ==
  /\ C19_KeysOfApp
  /\ C19_KeysOfV4

\* the stores keep exactly the known plan keys through every edit
C19_KeysKept ==
  /\ DOMAIN sessionByPlan = DayPlanIds
  /\ DOMAIN sessionByPlanV4 = DayPlanIdsV4

\* a plain object with a non-empty string date
QualifiesAsMeasurement(item) ==
  /\ item.t = "object"
  /\ Get(item, "date").t = "string"
  /\ Get(item, "date").v # <<>>

\* the value a numeric field of a kept entry is sanitized from, when the
\* legacy name is read where Missing holds of the canonical value
FieldSource(item, field, Missing(_)) ==
  LET legacy == [glutes |-> "hips", belly |-> "fat"]
  IN IF field \in DOMAIN legacy /\ Missing(Get(item, field))
     THEN Get(item, legacy[field])
     ELSE Get(item, field)

IsAbsent(value) == value.t = "undefined"

IsAbsentOrNull(value) == value.t \in {"undefined", "null"}

\* the loaded history is the qualifying entries of the persisted one, in
\* order, each with its date cut to the cap and each numeric field sanitized
\* from its own source
HistoryIsNormalized(Missing(_)) ==
  LET kept == SelectSeq(RawMeasurements(blob.v), QualifiesAsMeasurement)
  IN /\ Len(loadedProfile.measurements) = Len(kept)
     /\ \A i \in 1..Len(kept) :
          /\ loadedProfile.measurements[i].date =
               Slice(Get(kept[i], "date").v, DateChars)
          /\ \A f \in ProfileFields :
               loadedProfile.measurements[i][f] =
                 sanitizeNumber(FieldSource(kept[i], f, Missing), ProfileDigits)

\* the profile text has been read as a plain object without an exception
ProfileWasRead ==
  /\ "LoadProfile" \in loaders
  /\ BlobIsObject
  /\ ~loadProfileStateThrows(blob.v)

\* C21, as stated: loadProfileState keeps exactly the entries that are plain
\* objects with a non-empty string date, in order, sanitizes each numeric
\* field on its own, and reads hips for glutes and fat for belly exactly when
\* the canonical field is absent.
C21_Original == ProfileWasRead => HistoryIsNormalized(IsAbsent)

\* C21, as amended: the same, with hips read for glutes and fat for belly
\* exactly when the canonical field is absent or null.
C21_MeasurementsNormalized == ProfileWasRead => HistoryIsNormalized(IsAbsentOrNull)

\* C21 happens: a history of seven elements has been read into the three
\* qualifying entries; the first kept its own glutes and took belly from fat
\* because belly is null, the second took glutes from hips because glutes is
\* absent
C21_Witness ==
  /\ ProfileWasRead
  /\ Len(RawMeasurements(blob.v)) = 7
  /\ Len(loadedProfile.measurements) = 3
  /\ loadedProfile.measurements[1].glutes = <<"9", "5">>
  /\ loadedProfile.measurements[1].belly = <<"1", "2", "3">>
  /\ loadedProfile.measurements[2].glutes = <<"8", "8">>
  /\ loadedProfile.measurements[2].belly = <<>>

OneExpanded(list) ==
  Cardinality({i \in 1..Len(list) : list[i].expanded}) <= 1

\* C27, as stated, for the loaded state: at most one exercise of every plan
\* list is expanded in the session that loadSessionByPlan returns, also when
\* several persisted exercises carry a truthy expanded flag.
C27_Original ==
  "LoadApp" \in loaders => \A p \in DayPlanIds : OneExpanded(loadedApp[p])

\* the handlers of the store never expand a second exercise of a list
C27_HandlersKeepOneExpanded ==
  [][\A p \in DayPlanIds :
       OneExpanded(sessionByPlan[p]) => OneExpanded(sessionByPlan'[p])]_vars

(***************************************************************************)
(* Claims about the rest timer                                             *)
(***************************************************************************)
\* C7: a countdown started with n seconds is still running, with a tick
\* pending, after each of its first n-1 ticks; it is idle after the n-th, having
\* fired exactly one expiry notification; an idle timer has no tick pending, so
\* nothing ticks further and no second notification fires.
C7_CountdownExpiresOnce ==
  /\ restSeconds # <<>> =>
       /\ restSeconds[1] = countTotal - ticks
       /\ restSeconds[1] >= 1
       /\ expiries = 0
       /\ tickScheduled
  /\ restSeconds = <<>> => ~tickScheduled
  /\ (restSeconds = <<>> /\ countTotal > 0 /\ cancelledBy = "nothing") =>
       (ticks = countTotal /\ expiries = 1)
  /\ expiries <= 1

\* C7 happens: the countdown of 90 seconds has had its 90 ticks and has expired
C7_Witness ==
  /\ countTotal = 90
  /\ ticks = 90
  /\ restSeconds = <<>>
  /\ cancelledBy = "nothing"
  /\ expiries = 1
  /\ notice = NoticeRestDone

\* the total of the claims: min(max(m,0),99)*60 + min(max(s,0),59)
ClampedTotal(minutesText, secondsText) ==
  Min(Max(NumberOfDigits(minutesText), 0), 99) * 60
    + Min(Max(NumberOfDigits(secondsText), 0), 59)

\* C8 as stated: after startRestTimer with a total of 0 or less the validation
\* notice is set, no tick is scheduled and the timer is idle.
C8_Original ==
  (lastOp = "startRestTimer"
     /\ ClampedTotal(restMinutesInput, restSecondsInput) <= 0) =>
    /\ notice = NoticeSetRestTime
    /\ ~tickScheduled
    /\ restSeconds = <<>>

\* C8 as amended: startRestTimer with a total of 0 or less sets the validation
\* notice and leaves the timer as it was: an idle timer stays idle with no tick
\* scheduled, a running countdown keeps its remaining seconds and its tick.
C8_RejectedStartChangesNothing ==
  [][(lastOp' = "startRestTimer"
        /\ ClampedTotal(restMinutesInput, restSecondsInput) <= 0) =>
       /\ notice' = NoticeSetRestTime
       /\ restSeconds' = restSeconds
       /\ tickScheduled' = tickScheduled
       /\ restMinutesInput' = restMinutesInput
       /\ restSecondsInput' = restSecondsInput]_vars

\* C8 happens: a start with a zero total was rejected during a countdown
C8_Witness ==
  /\ lastOp = "startRestTimer"
  /\ ClampedTotal(restMinutesInput, restSecondsInput) <= 0
  /\ restSeconds # <<>>
  /\ tickScheduled
  /\ notice = NoticeSetRestTime

\* C9: startRestTimer with inputs m and s whose clamped total
\* min(max(m,0),99)*60 + min(max(s,0),59) is positive enters running(total);
\* (1, 30) gives 90 and seconds above 59 count as 59.
C9_StartEntersRunningTotal ==
  [][(lastOp' = "startRestTimer"
        /\ ClampedTotal(restMinutesInput, restSecondsInput) > 0) =>
       restSeconds' = <<ClampedTotal(restMinutesInput, restSecondsInput)>>]_vars

\* C9 happens: seconds typed as 75 with minutes 0 started a countdown of 59
C9_Witness ==
  /\ lastOp = "startRestTimer"
  /\ restMinutesInput = <<"0">>
  /\ restSecondsInput = <<"5", "9">>
  /\ restSeconds = <<59>>
  /\ ticks = 0

\* C10: once stopRestTimer has cancelled a countdown the timer is idle, no tick
\* is pending and that countdown has fired no expiry notification, at the stop
\* and at every later time.
C10_StopCancelsSilently ==
  cancelledBy = "stop" =>
    /\ restSeconds = <<>>
    /\ ~tickScheduled
    /\ expiries = 0

\* C10 happens: a countdown was stopped between two of its ticks
C10_Witness ==
  /\ cancelledBy = "stop"
  /\ ticks >= 1
  /\ ticks < countTotal - 1
  /\ restSeconds = <<>>

\* C11: at most one countdown is active. A successful startRestTimer during
\* running(k) puts the new total in place of k; at no time is more than one
\* tick callback armed; every tick lowers the remaining value by exactly one
\* (the tick at 1 ends the countdown); and a countdown that ran down has
\* fired exactly one expiry notification.
C11_OneCountdownAtATime ==
  /\ [](pendingTicks <= 1)
  /\ [](expiries <= 1)
  /\ []((restSeconds = <<>> /\ countTotal > 0 /\ cancelledBy = "nothing")
          => expiries = 1)
  /\ [][(lastOp' = "startRestTimer" /\ restSeconds # <<>>
           /\ ClampedTotal(restMinutesInput, restSecondsInput) > 0)
          => restSeconds' = <<ClampedTotal(restMinutesInput, restSecondsInput)>>]_vars
  /\ [][(ticks' = ticks + 1 /\ restSeconds # <<>>)
          => restSeconds' = IF restSeconds[1] > 1 THEN <<restSeconds[1] - 1>>
                            ELSE <<>>]_vars

\* C11 happens: a countdown of 5 was started over a running one and ran down
\* in five ticks to its one expiry
C11_Witness ==
  /\ replacedRunning
  /\ countTotal = 5
  /\ ticks = 5
  /\ restSeconds = <<>>
  /\ expiries = 1
  /\ pendingTicks = 0

\* C12, as stated: the tick that fired last was never one that had been armed
\* before the latest successful startRestTimer, so no tick of an earlier
\* countdown has lowered the remaining seconds of the countdown now running.
C12_Original == ~lastTickStale

(***************************************************************************)
(* Claims about the tabbed revision                                        *)
(***************************************************************************)
\* C13: pressing +30s in running(k) gives running(min(k + 30, 600)); the
\* countdown goes on (a tick stays armed, nothing else changes, no notice is
\* raised); and whatever starts, ticks and presses came before, the remaining
\* value never exceeds 600 seconds.
C13_AddRestTimeCapped ==
  /\ [](restSecondsV4 # <<>> => restSecondsV4[1] <= 600)
  /\ [][(lastOpV4' = "addRestTime" /\ restSecondsV4 # <<>>)
          => /\ restSecondsV4' =
                  <<IF restSecondsV4[1] + 30 < 600 THEN restSecondsV4[1] + 30
                    ELSE 600>>
             /\ tickScheduledV4'
             /\ noticeV4' = noticeV4
             /\ sessionByPlanV4' = sessionByPlanV4]_vars

\* C13 happens: after a tick the presses of +30s have brought the countdown
\* that addSet started to the cap, the last one from above 570
C13_Witness ==
  /\ lastOpV4 = "addRestTime"
  /\ restSecondsV4 = <<600>>
  /\ tickScheduledV4
  /\ noticeV4 = NoticeSetAdded
  /\ stepsV4 = MaxStepsV4

\* C23: when the armed timeout always fires in the end and the user starts a
\* countdown only finitely often, the timer ends idle and stays idle: no
\* countdown runs forever or stalls at a positive remaining value.
C23_CountdownEnds ==
  <>[][~startRestTimer]_vars => <>[](restSeconds = <<>>)

\* C23 happens: a countdown started once, never replaced, has run down to idle
\* with the panel still open
C23_Witness ==
  /\ ~replacedRunning
  /\ countTotal = 59
  /\ ticks = countTotal
  /\ expiries = 1
  /\ restSeconds = <<>>
  /\ ~tickScheduled
  /\ isRestPanelOpen

\* C26: in every reachable state of the full application the rest-timer value
\* is idle or an integer from 1 to 99 * 60 + 59: never 0, never negative and
\* never above 5999.
C26_RestSecondsInRange ==
  restSeconds = <<>> \/ restSeconds[1] \in 1..(MaxRestMinutes * 60 + MaxRestSeconds)

\* C26 happens: a countdown started from the inputs 99 and 75 at 5999 seconds
\* has ticked down to its last second
C26_Witness ==
  /\ countTotal = 5999
  /\ ticks = 5998
  /\ restSeconds = <<1>>
  /\ tickScheduled

\* C22, as stated, for the tabbed revision: selecting another plan tab while a
\* countdown is running leaves the timer idle.
C22_Original ==
  [][(lastOpV4' = "selectPlan" /\ selectedPlanIdV4' # selectedPlanIdV4
        /\ restSecondsV4 # <<>>) =>
       restSecondsV4' = <<>>]_vars

\* in the full application a countdown closed by closeWorkoutDrawers leaves
\* the timer idle with no tick armed, and the countdown fires no expiry later
C22_LeavingCancelsInApp ==
  /\ [][(restSeconds # <<>> /\ cancelledBy' = "close") =>
          (restSeconds' = <<>> /\ ~tickScheduled' /\ pendingTicks' = 0)]_vars
  /\ [](cancelledBy = "close" => expiries = 0)

(***************************************************************************)
(* Claims about the measurement history                                    *)
(***************************************************************************)
\* a step in which addMeasurement saved an entry
MeasurementSaved ==
  /\ nextId' = nextId + 1
  /\ notice' = NoticeMeasurementSaved

\* the entry addMeasurement builds from the fields of the card
EntryOfCard(state, id) ==
  [id |-> id, date |-> DateToday, height |-> state.height,
   weight |-> state.weight, chest |-> state.chest, waist |-> state.waist,
   glutes |-> state.glutes, thighs |-> state.thighs, belly |-> state.belly]

C15_Original == Len(profile.measurements) <= 40

(***************************************************************************)
(* Claims about the handlers of the exercise cards                         *)
(***************************************************************************)
\* C16, as stated: whenever a step gives an exercise of a plan list one set
\* more, the earlier sets are unchanged, the new last set has the weight and
\* the reps of the set that was last before, and the rest timer has been
\* started.
C16_Original ==
  [][\A p \in DayPlanIds :
       \A i \in 1..Len(sessionByPlan[p]) :
         (/\ Len(sessionByPlan'[p]) = Len(sessionByPlan[p])
          /\ sessionByPlan'[p][i].id = sessionByPlan[p][i].id
          /\ Len(sessionByPlan'[p][i].sets) = Len(sessionByPlan[p][i].sets) + 1)
           => LET old == sessionByPlan[p][i].sets
                  new == sessionByPlan'[p][i].sets
              IN /\ SubSeq(new, 1, Len(old)) = old
                 /\ new[Len(new)].weight = old[Len(old)].weight
                 /\ new[Len(new)].reps = old[Len(old)].reps
                 /\ restSeconds' # <<>>]_vars

(***************************************************************************)
(* Claims about the persist effects                                        *)
(***************************************************************************)
\* C17: once the persist effects of a render have run, the text stored under
\* each of the four keys is the serialization of the current session,
\* custom programs, profile and workout log; this holds from the first
\* render on, where the stored text is the normalized state.
C17_StoredTextIsCurrentState ==
  /\ storage = Persisted(sessionByPlan, customPrograms, profile)
  /\ storedLogs = JsonText(LogsJson(workoutLogs))

\* a log loaded from text with unusable elements and a numeric title, then
\* extended by a logged workout, and a profile and session edited afterwards
C17_Witness ==
  /\ Len(workoutLogs) = 3
  /\ workoutLogs[1].title = DefaultLogTitle
  /\ workoutLogs[3].dateKey = DateKeyToday
  /\ storedLogs = JsonText(LogsJson(workoutLogs))
  /\ storedLogs # StartLogsText
  /\ steps = MaxSteps
  /\ storage = Persisted(sessionByPlan, customPrograms, profile)
  /\ \E start \in StartStorage :
       storage.session # Persisted(loadSessionByPlan(start.session, FirstId),
                                   customPrograms, profile).session

\* the step takes exactly one set from an exercise of the list and leaves
\* the other sets of that exercise in their order
RemovesOneSet(old, new) ==
  /\ Len(new) = Len(old)
  /\ \E i \in 1..Len(old) :
       /\ new[i].id = old[i].id
       /\ Len(old[i].sets) >= 2
       /\ \E j \in 1..Len(old[i].sets) :
            new[i].sets = DropById(old[i].sets, old[i].sets[j].id)

\* some plan list or custom program loses exactly one set in the step
SetRemoved ==
  \/ \E p \in DayPlanIds : RemovesOneSet(sessionByPlan[p], sessionByPlan'[p])
  \/ /\ Len(customPrograms') = Len(customPrograms)
     /\ \E i \in 1..Len(customPrograms) :
          RemovesOneSet(customPrograms[i].exercises, customPrograms'[i].exercises)

\* C25, as stated: the notice outcome of removeSet matches whether a set was
\* removed; a step that removes a set of an exercise with two or more sets
\* produces no "minimum one set" notice.
C25_Original ==
  [][(SetRemoved /\ notice # NoticeMinimumOneSet) =>
       notice' # NoticeMinimumOneSet]_vars

(***************************************************************************)
(* Claims about adding exercises                                           *)
(***************************************************************************)
\* the step appends one exercise to the list and leaves the others in place
AppendsOne(old, new) ==
  /\ Len(new) = Len(old) + 1
  /\ SubSeq(new, 1, Len(old)) = old

\* the step is one of the add handlers: it ends in one of their two notices
AddHandlerStep == notice' \in {NoticeAdded, NoticeAlreadyListed}

\* C20, as stated: an add through the dropdown or the manual input never
\* appends an exercise whose name equals, case-insensitively, the name of an
\* exercise already in the target list; what an add appends is new to the list.
C20_Original ==
  [][AddHandlerStep =>
       /\ \A p \in DayPlanIds :
            AppendsOne(sessionByPlan[p], sessionByPlan'[p]) =>
              ~HasName(sessionByPlan[p],
                       sessionByPlan'[p][Len(sessionByPlan'[p])].name)
       /\ Len(customPrograms') = Len(customPrograms) =>
            \A i \in 1..Len(customPrograms) :
              AppendsOne(customPrograms[i].exercises, customPrograms'[i].exercises) =>
                ~HasName(customPrograms[i].exercises,
                         customPrograms'[i].exercises[
                           Len(customPrograms'[i].exercises)].name)]_vars

(***************************************************************************)
(* Claims about the custom programs                                        *)
(***************************************************************************)
ProgramIds(list) == {list[i].id : i \in 1..Len(list)}

\* the step is the auto-discard of saveWorkoutSetup, taken for the selected
\* program with the given id, which is empty and carries a mark that
\* clearCurrentPlan set with no exercise added and no switch since
DiscardsMarked(id) ==
  /\ notice' = NoticeEmptyProgramDeleted
  /\ selectedPlanId = "custom"
  /\ effectiveCustomProgramId = id
  /\ Len(activeExercises) = 0
  /\ pendingDeleteCustomProgramId = id
  /\ markClean

C28_SelectionIsListed ==
  /\ selectedCustomProgramId = NullId
       \/ selectedCustomProgramId \in ProgramIds(customPrograms)
  /\ effectiveCustomProgramId = NullId
       \/ effectiveCustomProgramId \in ProgramIds(customPrograms)

\* C28 happens: the selected program has been deleted while another program
\* stays in the list; the selection is null
C28_Witness ==
  /\ notice = NoticeProgramDeleted
  /\ selectedCustomProgramId = NullId
  /\ Len(customPrograms) >= 1
  /\ selectedPlanId = "upper"
  /\ steps >= 3
  /\ nextId \notin {FirstId, FirstId + 1}

\* the ids of the programs are pairwise distinct
DistinctProgramIds ==
  \A i, j \in 1..Len(customPrograms) :
    i # j => customPrograms[i].id # customPrograms[j].id

\* a step changes at most one program of the list and removes at most one
OneProgramTouched ==
  /\ Len(customPrograms') = Len(customPrograms) =>
       Cardinality({i \in 1..Len(customPrograms) :
                      customPrograms'[i] # customPrograms[i]}) <= 1
  /\ Len(customPrograms') < Len(customPrograms) =>
       Len(customPrograms') = Len(customPrograms) - 1

\* C29, as stated: custom-program ids are pairwise distinct in every reachable
\* state, the one loaded from persisted text included, and an edit or delete
\* aimed at one program changes or removes that one program only.
C29_Original ==
  /\ []DistinctProgramIds
  /\ [][OneProgramTouched]_vars

\* the frame part of C29 on its own
C29_OneProgramTouched == [][OneProgramTouched]_vars

(***************************************************************************)
(* Calendar dates.  A Date is modelled by the number of whole days from    *)
(* 1 January 1970 to its local calendar day, and its hour of the day.      *)
(***************************************************************************)
FirstAnchorYear == 2023

LastAnchorYear == 2028

\* the years in which a date of the model may lie
CalendarYears == (FirstAnchorYear - 1)..(LastAnchorYear + 1)

InLeapYear(y) == (y % 4 = 0 /\ y % 100 # 0) \/ y % 400 = 0

\* the day number of 1 January of year y
DayFromYear(y) ==
  365 * (y - 1970) + ((y - 1969) \div 4) - ((y - 1901) \div 100)
    + ((y - 1601) \div 400)

\* the length of month m (0 = January) of year y
DaysInMonth(y, m) ==
  IF m = 1 THEN (IF InLeapYear(y) THEN 29 ELSE 28)
  ELSE IF m \in {3, 5, 8, 10} THEN 30 ELSE 31

RECURSIVE DaysBeforeMonth(_, _)
DaysBeforeMonth(y, m) ==
  IF m = 0 THEN 0 ELSE DaysBeforeMonth(y, m - 1) + DaysInMonth(y, m - 1)

\* the day number of day d of month m of year y; d may lie outside the month,
\* and the day then lies that many days before or after it
MakeDay(y, m, d) == DayFromYear(y) + DaysBeforeMonth(y, m) + d - 1

\* new Date(year, month, day): local midnight of that day
NewDate(y, m, d) == [day |-> MakeDay(y, m, d), hours |-> 0]

getFullYear(date) ==
  CHOOSE y \in CalendarYears :
    DayFromYear(y) <= date.day /\ date.day < DayFromYear(y + 1)

getMonth(date) ==
  LET y == getFullYear(date)
      inYear == date.day - DayFromYear(y)
  IN CHOOSE m \in 0..11 :
       /\ DaysBeforeMonth(y, m) <= inYear
       /\ inYear < DaysBeforeMonth(y, m) + DaysInMonth(y, m)

getDate(date) == date.day - MakeDay(getFullYear(date), getMonth(date), 1) + 1

\* the day of the week, 0 = Sunday; 1 January 1970 was a Thursday
getDay(date) == (date.day + 4) % 7

\* date.setDate(n): day n of the month the date lies in, the hour kept
setDate(date, n) ==
  [date EXCEPT !.day = MakeDay(getFullYear(date), getMonth(date), n)]

\* date.setHours(0, 0, 0, 0)
setHours(date) == [date EXCEPT !.hours = 0]

formatDateKey(date) ==
  StringOfNat(getFullYear(date)) \o <<"-">>
    \o padStart(StringOfNat(getMonth(date) + 1), 2) \o <<"-">>
    \o padStart(StringOfNat(getDate(date)), 2)

\* the offset taken from getDay() without the shift to Monday
SundayOffset(date) == getDay(date)

\* (date.getDay() + 6) % 7: the days from the Monday of the week to the date
MondayOffset(date) == (getDay(date) + 6) % 7

\* getWeekStart of the full application
getWeekStart(date) ==
  LET current == setHours(date)
      day == MondayOffset(current)
  IN setDate(current, getDate(current) - day)

\* getWeekStart of part_000: the weekday is read before the hour is cleared
getWeekStartV3(date) ==
  LET day == MondayOffset(date)
      current == setHours(date)
  IN setDate(current, getDate(current) - day)

MonthGridCells == 42

\* buildMonthCalendar(anchorDate), with clock the value of new Date()
buildMonthCalendar(anchor, clock) ==
  LET first == NewDate(getFullYear(anchor), getMonth(anchor), 1)
      startOffset == MondayOffset(first)
      start == setDate(first, getDate(first) - startOffset)
      todayKey == formatDateKey(clock)
      currentMonth == getMonth(anchor)
  IN [cell \in 1..MonthGridCells |->
       LET date == setDate(start, getDate(start) + (cell - 1))
       IN [key |-> formatDateKey(date),
           dayNumber |-> getDate(date),
           inCurrentMonth |-> getMonth(date) = currentMonth,
           isToday |-> formatDateKey(date) = todayKey]]

(***************************************************************************)
(* SpecCalendar: the calendar functions applied to bounded anchor dates    *)
(***************************************************************************)
\* the days of a month the anchors are drawn from; over the months of the
\* anchor years each of them falls on every weekday
AnchorDays(y, m) == {1, 15, DaysInMonth(y, m)}

AnchorHours == {0, 23}

ClockDays == {1, 15}

InitCalendar ==
  /\ \E y \in FirstAnchorYear..LastAnchorYear, m \in 0..11 :
       /\ \E d \in AnchorDays(y, m), h \in AnchorHours :
            anchorDate = [day |-> MakeDay(y, m, d), hours |-> h]
       /\ \E d \in ClockDays : now = [day |-> MakeDay(y, m, d), hours |-> 12]
  /\ monthCalendar = Pending
  /\ weekStart = <<>>
  /\ weekStartV3 = <<>>
  /\ SanIdle
  /\ LoadIdle
  /\ TimerIdle
  /\ StoreIdle
  /\ V4Idle

BuildMonthCalendar ==
  /\ monthCalendar = Pending
  /\ monthCalendar' = buildMonthCalendar(anchorDate, now)
  /\ UNCHANGED <<anchorDate, now, weekStart, weekStartV3, sanVars, loadVars,
                 timerVars, storeVars, v4Vars>>

GetWeekStart ==
  /\ weekStart = <<>>
  /\ weekStart' = <<getWeekStart(anchorDate)>>
  /\ UNCHANGED <<anchorDate, now, monthCalendar, weekStartV3, sanVars,
                 loadVars, timerVars, storeVars, v4Vars>>

GetWeekStartV3 ==
  /\ weekStartV3 = <<>>
  /\ weekStartV3' = <<getWeekStartV3(anchorDate)>>
  /\ UNCHANGED <<anchorDate, now, monthCalendar, weekStart, sanVars,
                 loadVars, timerVars, storeVars, v4Vars>>

NextCalendar == BuildMonthCalendar \/ GetWeekStart \/ GetWeekStartV3

SpecCalendar == InitCalendar /\ [][NextCalendar]_vars

(***************************************************************************)
(* Claims about the calendar                                               *)
(***************************************************************************)
\* the day number a date key "YYYY-MM-DD" names
DayOfKey(key) ==
  MakeDay(NumberOfDigits(SubSeq(key, 1, 4)),
          NumberOfDigits(SubSeq(key, 6, 7)) - 1,
          NumberOfDigits(SubSeq(key, 9, 10)))

\* the day numbers of the anchor month
AnchorMonthDays ==
  LET y == getFullYear(anchorDate)
      m == getMonth(anchorDate)
  IN MakeDay(y, m, 1)..MakeDay(y, m, DaysInMonth(y, m))

IsMonday(day) == (day + 4) % 7 = 1

\* the grid is 42 consecutive days from a Monday at most six days before the
\* 1st of the anchor month, holds every day of that month once, and flags
\* exactly the cells of that month
GridIsRight(days, flags, month) ==
  LET firstOfMonth == CHOOSE d \in month : \A e \in month : d <= e
  IN /\ Len(days) = 42
     /\ \A cell \in 1..(Len(days) - 1) : days[cell + 1] = days[cell] + 1
     /\ IsMonday(days[1])
     /\ days[1] <= firstOfMonth
     /\ firstOfMonth - days[1] <= 6
     /\ Cardinality(month) \in 28..31
     /\ \A d \in month : Cardinality({cell \in 1..Len(days) : days[cell] = d}) = 1
     /\ \A cell \in 1..Len(days) : flags[cell] <=> days[cell] \in month

MonthGridIsRight ==
  GridIsRight([cell \in 1..Len(monthCalendar) |-> DayOfKey(monthCalendar[cell].key)],
              [cell \in 1..Len(monthCalendar) |-> monthCalendar[cell].inCurrentMonth],
              AnchorMonthDays)

\* the date is the midnight of the Monday of the week the anchor lies in
IsWeekStartOfAnchor(date) ==
  /\ IsMonday(date.day)
  /\ date.day <= anchorDate.day
  /\ anchorDate.day - date.day <= 6
  /\ date.hours = 0

\* C30: for every anchor date buildMonthCalendar returns 42 consecutive
\* calendar days whose first cell is a Monday on or before the 1st of the
\* anchor month; every day of the anchor month (28 to 31 days, for any
\* weekday of the 1st) appears exactly once and only those cells are flagged
\* inCurrentMonth; getWeekStart returns the Monday of the week holding its
\* argument, at most 6 days earlier, in both revisions.
C30_CalendarGrid ==
  /\ monthCalendar # Pending => MonthGridIsRight
  /\ weekStart # <<>> => IsWeekStartOfAnchor(weekStart[1])
  /\ weekStartV3 # <<>> => IsWeekStartOfAnchor(weekStartV3[1])

\* December 2024 begins on a Sunday: the grid runs from Monday 25 November to
\* 5 January, the month fills cells 7 to 37, and the week of Sunday the 1st
\* starts six days before it
C30_Witness ==
  /\ anchorDate = [day |-> MakeDay(2024, 11, 1), hours |-> 23]
  /\ monthCalendar # Pending
  /\ monthCalendar[1].key = <<"2", "0", "2", "4", "-", "1", "1", "-", "2", "5">>
  /\ ~monthCalendar[6].inCurrentMonth
  /\ monthCalendar[7].inCurrentMonth /\ monthCalendar[7].dayNumber = 1
  /\ monthCalendar[37].inCurrentMonth /\ monthCalendar[37].dayNumber = 31
  /\ ~monthCalendar[38].inCurrentMonth
  /\ monthCalendar[42].key = <<"2", "0", "2", "5", "-", "0", "1", "-", "0", "5">>
  /\ weekStart = <<[day |-> anchorDate.day - 6, hours |-> 0]>>
  /\ weekStartV3 = weekStart

====
